---- MODULE Spec2Model ----
(***************************************************************************)
(* Model of the active-table detector of diskquota (gp_activetable.c):     *)
(* the storage-event probes that fill the shared active-table map, the     *)
(* segment-side fetch function (FETCH_ACTIVE_OID / FETCH_ACTIVE_SIZE) and  *)
(* the coordinator's two-phase fetch (gp_fetch_active_tables).             *)
(*                                                                         *)
(* Spec      : one node's shared memory, backends running probes and       *)
(*             FETCH_ACTIVE_OID calls step by step, under the lock.        *)
(* SpecEpoch : the coordinator's worker calling gp_fetch_active_tables     *)
(*             epoch after epoch on a cluster of primary segments.         *)
(* SpecStats : one call of get_active_tables_stats (FETCH_ACTIVE_SIZE) on  *)
(*             every oid array, NULL elements included.                    *)
(* SpecAgg   : one call of pull_active_table_size_from_seg on every set of *)
(*             rows the segments may return.                               *)
(* SpecFanout : one fetch over segments whose maps hold two relations.     *)
(* SpecVersion : the tuples and the initial load under each major version. *)
(* SpecHooks : the four file hooks on nodes with a relation cache.         *)
(* SpecObjectAccess : the object-access hook on every argument.            *)
(* SpecWait  : wait_for_worker_new_epoch, the worker's loop, cancellation. *)
(* SpecSize  : relation_size while the relation's files are unlinked.      *)
(* SpecRelationCache : the relation cache with its auxiliary relations.    *)
(* SpecMailbox : the launcher's mailbox and the requesters.                *)
(* SpecQuota : the quota of one target, pause/resume and the write gate.   *)
(* SpecDrains : two FETCH_ACTIVE_OID calls at the same time, and probes.   *)
(* SpecMonitored : the launcher's writes to the set of monitored           *)
(*             databases and the probes' membership test.                  *)
(* SpecOneCall : one FETCH_ACTIVE_OID call on every map, without probes.   *)
(* SpecChain : the installation of the hooks and the host's events, with   *)
(*             or without a listener installed before.                     *)
(***************************************************************************)
EXTENDS Integers, FiniteSets, Sequences, TLC

(***************************************************************************)
(* Bounds of the model.                                                    *)
(***************************************************************************)
\* value given to the GUC diskquota_max_active_tables (capacity of the map)
diskquota_max_active_tables == 2
\* number of backends that run an operation at the same time on the nodes
NumProcs == 1
\* number of elements the table takes from the allocator of shared memory at
\* once when none of its own is free (dynahash allocates elements in batches
\* of at least 32; a batch covers every key of the model)
nelem_alloc == 32

\* number of primary segments of the cluster
NumSegs == 2
\* largest size pg_table_size returns
MaxTableSize == 1
\* largest number of elements of the oid array given to FETCH_ACTIVE_SIZE
MaxArrayLen == 3

Procs == 1..NumProcs
\* the holder of a lock that a probing backend keeps
ProbeBackend == NumProcs + 1
DbIds == {1, 2, 3}
\* the databases with a running worker
MonitoredDbs == {1, 2}
RelFileNodes == {1, 2}
Tablespaces == {1}
\* the segments (GpIdentity.segindex) and the sizes of a relation on one of them
Segs == 0..(NumSegs - 1)
Sizes == 0..MaxTableSize

\* the three kinds of node a backend runs on
Nodes == {"dispatcher", "primary", "mirror"}

\* DiskQuotaActiveTableFileEntry: the key of active_tables_map
FileEntries == [dbid : DbIds, relfilenode : RelFileNodes, tablespaceoid : Tablespaces]

VARIABLES
    active_tables_map,            \* node -> set of file entries (shared memory)
    active_tables_nelem,          \* node -> elements the shared table has allocated
    monitoring_dbid_cache,        \* set of monitored database ids (shared memory)
    active_table_lock,            \* node -> holder of the LWLock (0 = free)
    pc,                           \* backend -> place in its operation
    node,                         \* backend -> node it runs on
    MyDatabaseId,                 \* backend -> database of a fetch call
    local_active_table_file_map,  \* backend -> entries drained by a fetch call
    local_active_table_stats_map, \* backend -> relation ids a fetch call returns
    last_ret,                     \* the last return: operation, node, outcome, result
    epoch_phase,                  \* the worker: "idle", or the phase of its fetch
    pg_results,                   \* segment -> its reply to the dispatched command
    active_oid_list,              \* the oid array of the size phase
    local_table_stats_map,        \* the map of the worker's gp_fetch_active_tables call
    size_failed,                  \* segment -> relations whose size computation raised
    removed,                      \* segment -> entries the running fetch drained for good
    owed,                         \* relation -> epochs ended since it was drained unreported
    call_args,                    \* the arguments of the one call of SpecStats, SpecAgg
    call_result,                  \* what that call returned ("none" before it)
    relation_cache,               \* node -> entries of the relation cache (shared memory)
    WorkerEpoch,                  \* the epoch counter of the coordinator's worker
    worker_pc,                    \* the worker's place in its loop
    fault,                        \* the fault injected at 'diskquota_worker_main'
    wait_pc,                      \* backend -> place in wait_for_worker_new_epoch
    wait_start,                   \* backend -> WorkerEpoch when its wait started
    QueryCancelPending,           \* backend -> a cancel request is pending
    relfile,                      \* node -> the storage file of the relation
    stat_pc,                      \* node -> place of its relation_size_local call
    stat_result,                  \* node -> what its relation_size_local returned
    enoent,                       \* node -> its stat found no file
    relation_size_result,         \* what relation_size returned ("none" before)
    pg_class,                     \* the relations that have a row in the catalog
    pending_unlink,               \* relfilenodes of dropped relations, not yet unlinked
    relation_cache_detail,        \* the relation cache with its primary/auxiliary links
    swept,                        \* sweep_committed has run and the cache was not changed since
    extension_ddl_lock,           \* holder of extension_ddl_lock (0 = free)
    extension_ddl_message,        \* the mailbox: req_pid, cmd, dbid, result, and for whom
    got_sigusr1,                  \* the launcher has been signalled
    launcher_pc,                  \* the launcher: "idle" or "processing"
    local_extension_ddl_message,  \* the launcher's copy of the message it processes
    req_pc,                       \* requester -> place in its create/drop extension
    req_cmd,                      \* requester -> the command it sent
    req_read,                     \* requester -> the result it read, and for whom it was
    diskquota_paused,             \* the paused flag of the database
    quota_limit,                  \* the configured limit of the target (-1: none)
    rel_size,                     \* relation -> its current size
    epoch_size,                   \* relation -> its size in the last completed refresh
    epoch_limit,                  \* the limit the last completed refresh read
    black_map,                    \* the blocklist: the relations listed for the target
    write_result,                 \* the last write attempt: relation, outcome, paused
    monitoring_dbid_cache_lock,   \* the LWLock of the set: its exclusive and shared holders
    launcher_dbid_op,             \* the launcher's write to the set, while it holds the lock
    dbid_read,                    \* the last membership test of a probe, and what it held
    probe_pc,                     \* probing backend -> its place in the helper, its file
    file_hook,                    \* hook -> what the host's hook variable points to
    prev_hook,                    \* hook -> what the extension saved as previous hook
    hook_calls                    \* the last event of the host and the calls it led to

\* the state of the backends of Spec
backend_vars == <<pc, node, MyDatabaseId, local_active_table_file_map,
                  local_active_table_stats_map>>
\* the state of the coordinator's worker of SpecEpoch
epoch_vars == <<epoch_phase, pg_results, active_oid_list, local_table_stats_map,
                size_failed, removed, owed>>

\* the call of the specifications of one function
call_vars == <<call_args, call_result>>

\* the state of the relation cache
hook_vars == <<relation_cache>>
\* the state of the worker's loop and of the backends waiting for an epoch
wait_vars == <<WorkerEpoch, worker_pc, fault, wait_pc, wait_start, QueryCancelPending>>
\* the state of one relation_size call and of the files it reads
size_vars == <<relfile, stat_pc, stat_result, enoent, relation_size_result>>
\* the catalog and the relation cache with its auxiliary sets
cache_vars == <<pg_class, pending_unlink, relation_cache_detail, swept>>
\* the launcher's mailbox, the launcher and the requesters
mailbox_vars == <<extension_ddl_lock, extension_ddl_message, got_sigusr1, launcher_pc,
                  local_extension_ddl_message, req_pc, req_cmd, req_read>>
\* the quota of one target, the sizes of its relations, the blocklist and
\* the enforcement gate
gate_vars == <<diskquota_paused, quota_limit, rel_size, epoch_size, epoch_limit,
               black_map, write_result>>
\* the lock of the set of monitored databases, the launcher's writes to the
\* set and the probes' reads of it
dbset_vars == <<monitoring_dbid_cache_lock, launcher_dbid_op, dbid_read, probe_pc>>
\* the state of the parts of diskquota outside gp_activetable.c
\* the hook variables of the host, the saved previous hooks and the calls
\* of the last event
chain_vars == <<file_hook, prev_hook, hook_calls>>
quota_vars == <<cache_vars, mailbox_vars, gate_vars, dbset_vars, chain_vars>>
\* the state the operations on the active-table map leave alone
ext_vars == <<hook_vars, wait_vars, size_vars, quota_vars>>
vars == <<active_tables_map, active_tables_nelem, monitoring_dbid_cache, active_table_lock,
          backend_vars, last_ret, epoch_vars, call_vars, ext_vars>>

(***************************************************************************)
(* Helpers translated from the code.                                       *)
(***************************************************************************)
IS_QUERY_DISPATCHER(n) == n = "dispatcher"
IsRoleMirror(n) == n = "mirror"

\* the elements the shared table may come to own: those ShmemInitHash
\* allocates for it (init_size = max_size = diskquota_max_active_tables), and
\* with them the batch the allocator of shared memory gives it later
TableSizes ==
    {diskquota_max_active_tables, diskquota_max_active_tables + nelem_alloc}

\* a plausible slip: a full table answers NULL before the key is looked up
HashEnterNullWhenFull(map, e, nelem, spare) ==
    IF Cardinality(map) >= nelem /\ ~spare
        THEN [map |-> map, nelem |-> nelem, entry |-> FALSE, found |-> FALSE]
    ELSE IF e \in map
        THEN [map |-> map, nelem |-> nelem, entry |-> TRUE, found |-> TRUE]
    ELSE [map |-> map \cup {e},
          nelem |-> IF Cardinality(map) < nelem THEN nelem ELSE nelem + nelem_alloc,
          entry |-> TRUE, found |-> FALSE]

\* hash_search(active_tables_map, e, HASH_ENTER_NULL, &found) on the table
\* ShmemInitHash created with init_size = max_size =
\* diskquota_max_active_tables and without HASH_FIXED_SIZE, when the table
\* owns nelem elements: the entry is found; or it is entered in a free
\* element; or, with no element free, the table asks the allocator of shared
\* memory for a batch of elements and enters the entry when the allocator has
\* the memory to spare (spare), and returns NULL when it has not.
HashEnterNull(map, e, nelem, spare) ==
    IF e \in map
        THEN [map |-> map, nelem |-> nelem, entry |-> TRUE, found |-> TRUE]
    ELSE IF Cardinality(map) < nelem
        THEN [map |-> map \cup {e}, nelem |-> nelem, entry |-> TRUE, found |-> FALSE]
    ELSE IF spare
        THEN [map |-> map \cup {e}, nelem |-> nelem + nelem_alloc, entry |-> TRUE,
              found |-> FALSE]
    ELSE [map |-> map, nelem |-> nelem, entry |-> FALSE, found |-> FALSE]

\* get_relid_by_relfilenode: the relation that owns a storage file, when the
\* catalog (or the relation cache) knows it
RelidOf(e) == e.relfilenode

\* get_primary_table_oid: relation 2 is an auxiliary relation (toast, index)
\* of relation 1
get_primary_table_oid(relOid) == IF relOid = 2 THEN 1 ELSE relOid

\* the values a backend's locals have outside an operation
NoDb == CHOOSE d \in DbIds : TRUE

\* the record of a return: the operation, the node, the outcome, the relation
\* ids handed back and whether the put-back loop ran
Returned(op, n, outcome, oids, putback) ==
    [op |-> op, node |-> n, outcome |-> outcome, oids |-> oids, putback |-> putback]

\* a reply that has not come yet
NoResult == [status |-> "none", rows |-> {}]

\* the worker between two fetches, before its first one
EpochIdle ==
    /\ epoch_phase = "idle"
    /\ pg_results = [s \in Segs |-> NoResult]
    /\ active_oid_list = <<>>
    /\ local_table_stats_map = {}
    /\ size_failed = [s \in Segs |-> {}]
    /\ removed = [s \in Segs |-> {}]
    /\ owed = [r \in {get_primary_table_oid(RelidOf(e)) : e \in FileEntries} |-> 0]

\* the relation cache is empty
HooksIdle == relation_cache = [n \in Nodes |-> {}]

\* the nodes a relation has a storage file on: the segments and the
\* coordinator (content -1)
SizeNodes == Segs \cup {-1}

\* the worker is at the top of its loop in epoch 0, no fault is injected, no
\* backend waits
WaitIdle ==
    /\ WorkerEpoch = 0
    /\ worker_pc = "top"
    /\ fault = "none"
    /\ wait_pc = [p \in Procs |-> "idle"]
    /\ wait_start = [p \in Procs |-> 0]
    /\ QueryCancelPending = [p \in Procs |-> FALSE]

\* no relation_size call runs
SizeCallIdle ==
    /\ stat_pc = [n \in SizeNodes |-> "idle"]
    /\ stat_result = [n \in SizeNodes |-> [status |-> "none", size |-> 0]]
    /\ enoent = [n \in SizeNodes |-> FALSE]
    /\ relation_size_result = [status |-> "none", size |-> 0]

\* no relation_size call runs; the relation's files are there and empty
SizeIdle ==
    /\ relfile = [n \in SizeNodes |-> [exists |-> TRUE, size |-> 0]]
    /\ SizeCallIdle

\* nothing has happened outside the active-table map
\* no relation has been created: the catalog holds no user relation, the
\* relation cache is empty
CacheIdle ==
    /\ pg_class = {}
    /\ pending_unlink = {}
    /\ relation_cache_detail = {}
    /\ swept = FALSE

\* the backends that create or drop the extension
NumRequesters == 2
Requesters == 1..NumRequesters

\* MessageCommand and MessageResult
CMD_CREATE_EXTENSION == 1
CMD_DROP_EXTENSION == 2
ERR_PENDING == 0
ERR_OK == 1
ERR_EXCEED == 2

\* the mailbox after memset(0): no requester, no command, result ERR_PENDING;
\* answers names the requester whose command a result answers (0: none)
EmptyMessage == [req_pid |-> 0, cmd |-> 0, dbid |-> 0, result |-> ERR_PENDING,
                 answers |-> 0]

\* the mailbox is empty, the launcher idle, no requester is at work
MailboxIdle ==
    /\ extension_ddl_lock = 0
    /\ extension_ddl_message = EmptyMessage
    /\ got_sigusr1 = FALSE
    /\ launcher_pc = "idle"
    /\ local_extension_ddl_message = EmptyMessage
    /\ req_pc = [p \in Requesters |-> "idle"]
    /\ req_cmd = [p \in Requesters |-> 0]
    /\ req_read = [p \in Requesters |-> [result |-> ERR_PENDING, answers |-> 0]]

\* the relations of the one quota target (a schema) of the model
QuotaRels == {1, 2}

\* the limits a target may have: -1 is no limit, 0 denies all writes
NoLimit == -1
QuotaLimits == {NoLimit} \cup (0..MaxTableSize)

\* the database is not paused, the target has no limit, its relations are
\* empty, no refresh has listed anything, no write was attempted
GateIdle ==
    /\ diskquota_paused = FALSE
    /\ quota_limit = NoLimit
    /\ rel_size = [r \in QuotaRels |-> 0]
    /\ epoch_size = [r \in QuotaRels |-> 0]
    /\ epoch_limit = NoLimit
    /\ black_map = {}
    /\ write_result = [relid |-> 0, outcome |-> "none", paused |-> FALSE]

\* nothing has happened in the parts outside gp_activetable.c
\* the launcher's write in progress: none
NoDbidOp == [op |-> "none", dbid |-> 0]

\* the backends whose probes run next to the launcher
Probers == {ProbeBackend, ProbeBackend + 1}

\* a probing backend outside the helper
NoProbe == [pc |-> "idle", e |-> CHOOSE e \in FileEntries : TRUE]

\* the lock of the set is free, the launcher writes nothing, no probe has
\* tested a database yet
DbsetIdle ==
    /\ probe_pc = [b \in Probers |-> NoProbe]
    /\ monitoring_dbid_cache_lock = [exclusive |-> FALSE, shared |-> {}]
    /\ launcher_dbid_op = NoDbidOp
    /\ dbid_read = [op |-> "none", dbid |-> 0, found |-> FALSE, member |-> FALSE,
                    held |-> "none", writing |-> 0]

\* the five hooks of the host: file_create_hook, file_extend_hook,
\* file_truncate_hook, file_unlink_hook and object_access_hook
HookNames == {"smgrcreate", "smgrextend", "smgrtruncate", "smgrunlink", "object_access"}

\* the arguments of an event that has not come
NoEvent == [hook |-> "none", rnode |-> [dbid |-> 0, relfilenode |-> 0, tablespaceoid |-> 0],
            access |-> "none", classId |-> 0, objectId |-> 0, subId |-> 0]

\* the extension's hooks are installed, no listener was installed before
\* them, no event has come
ChainIdle ==
    /\ file_hook = [h \in HookNames |-> "diskquota"]
    /\ prev_hook = [h \in HookNames |-> "NULL"]
    /\ hook_calls = [event |-> NoEvent, via |-> "NULL", calls |-> <<>>]

QuotaIdle == CacheIdle /\ MailboxIdle /\ GateIdle /\ DbsetIdle /\ ChainIdle

ExtIdle == HooksIdle /\ WaitIdle /\ SizeIdle /\ QuotaIdle

\* no call of a single function is modelled
NoCall ==
    /\ call_args = [fn |-> "none"]
    /\ call_result = NoResult

\* the backends of Spec, outside any operation
BackendsIdle ==
    /\ pc = [p \in Procs |-> "idle"]
    /\ node = [p \in Procs |-> "primary"]
    /\ MyDatabaseId = [p \in Procs |-> NoDb]
    /\ local_active_table_file_map = [p \in Procs |-> {}]
    /\ local_active_table_stats_map = [p \in Procs |-> {}]

\* the shared memory of every node after init_shm_worker_active_tables
ShmemIdle ==
    /\ active_tables_map = [n \in Nodes |-> {}]
    /\ active_tables_nelem = [n \in Nodes |-> diskquota_max_active_tables]
    /\ monitoring_dbid_cache = MonitoredDbs
    /\ active_table_lock = [n \in Nodes |-> 0]

Init ==
    /\ ShmemIdle
    /\ BackendsIdle
    /\ last_ret = Returned("none", "primary", "none", {}, FALSE)
    /\ EpochIdle
    /\ NoCall
    /\ ExtIdle

(***************************************************************************)
(* report_active_table_helper, called by the create, extend and truncate   *)
(* hooks.                                                                  *)
(***************************************************************************)
\* a plausible slip: the role test is left out
ProbeSkipsNoRole(n, dbid) == dbid \notin monitoring_dbid_cache

\* a plausible slip: the monitored-database test is left out
ProbeSkipsNoDb(n, dbid) == IS_QUERY_DISPATCHER(n) \/ IsRoleMirror(n)

\* the early returns of report_active_table_helper
ProbeSkips(n, dbid) ==
    \/ IS_QUERY_DISPATCHER(n) \/ IsRoleMirror(n)
    \/ dbid \notin monitoring_dbid_cache

\* what the probe's critical section leaves: the map, the lock after
\* LWLockRelease, and the outcome (the entry is entered or found, or the
\* warning is logged)
ProbeEnter(map, e, nelem, spare) ==
    LET r == HashEnterNull(map, e, nelem, spare) IN
    [map |-> r.map,
     nelem |-> r.nelem,
     lock |-> 0,
     outcome |-> IF ~r.found /\ ~r.entry THEN "warning"
                 ELSE IF r.found THEN "found" ELSE "entered"]

\* one call of the helper by a backend of node n, from the create, the extend
\* or the truncate hook (the three only pass rnode on): the early returns, or
\* LWLockAcquire (the backend waits until the lock is free), hash_search, the
\* warning, LWLockRelease
ReportActiveTable(n, e) ==
    IF ProbeSkips(n, e.dbid)
        THEN /\ last_ret' = Returned("probe", n, "skipped", {}, FALSE)
             /\ UNCHANGED <<active_tables_map, active_tables_nelem, active_table_lock>>
        ELSE /\ active_table_lock[n] = 0
             /\ \E spare \in BOOLEAN :
                 LET r == ProbeEnter(active_tables_map[n], e, active_tables_nelem[n],
                                     spare) IN
                 /\ active_tables_map' = [active_tables_map EXCEPT ![n] = r.map]
                 /\ active_tables_nelem' = [active_tables_nelem EXCEPT ![n] = r.nelem]
                 /\ active_table_lock' = [active_table_lock EXCEPT ![n] = r.lock]
                 /\ last_ret' = Returned("probe", n, r.outcome, {}, FALSE)

\* the helper in a backend that does nothing else
report_active_table_helper(n, e) ==
    /\ ReportActiveTable(n, e)
    /\ UNCHANGED <<monitoring_dbid_cache, pc, node, MyDatabaseId,
                   local_active_table_file_map, local_active_table_stats_map>>
    /\ UNCHANGED <<epoch_vars, call_vars, ext_vars>>

(***************************************************************************)
(* diskquota_fetch_table_stat(FETCH_ACTIVE_OID): get_active_tables_oid.    *)
(***************************************************************************)
\* the values of Gp_role, and those a session on node n can run with: the
\* coordinator dispatches or is in utility mode, a primary executes for the
\* coordinator or serves a utility-mode connection of a user, a mirror
\* accepts no session
GpRoles == {"dispatch", "utility", "execute"}
RolesOf(n) ==
    IF n = "dispatcher" THEN {"dispatch", "utility"}
    ELSE IF n = "primary" THEN {"execute", "utility"}
    ELSE {}

\* a plausible slip: the role test is left out
FetchRefusesNever(role) == FALSE

\* Gp_role == GP_ROLE_DISPATCH || Gp_role == GP_ROLE_UTILITY: the ERROR "This
\* function must not be called on master or by user"
FetchRefuses(role) == role = "dispatch" \/ role = "utility"

\* the call: it is refused in the dispatch and the utility role, else the
\* drain begins
diskquota_fetch_table_stat_oid(p, n, db, role) ==
    /\ pc[p] = "idle"
    /\ role \in RolesOf(n)
    /\ IF FetchRefuses(role)
          THEN /\ last_ret' = Returned("fetch", n, "error", {}, FALSE)
               /\ UNCHANGED <<pc, node, MyDatabaseId>>
          ELSE /\ pc' = [pc EXCEPT ![p] = "oid_lock"]
               /\ node' = [node EXCEPT ![p] = n]
               /\ MyDatabaseId' = [MyDatabaseId EXCEPT ![p] = db]
               /\ UNCHANGED last_ret
    /\ UNCHANGED <<active_tables_map, monitoring_dbid_cache, active_table_lock,
                   local_active_table_file_map, local_active_table_stats_map>>
    /\ UNCHANGED <<active_tables_nelem, epoch_vars, call_vars, ext_vars>>

\* LWLockAcquire(active_table_lock, LW_EXCLUSIVE) before the drain
DrainLockAcquire(p) ==
    /\ pc[p] = "oid_lock"
    /\ active_table_lock[node[p]] = 0
    /\ active_table_lock' = [active_table_lock EXCEPT ![node[p]] = p]
    /\ pc' = [pc EXCEPT ![p] = "oid_drain"]
    /\ UNCHANGED <<active_tables_map, monitoring_dbid_cache, node, MyDatabaseId,
                   local_active_table_file_map, local_active_table_stats_map, last_ret>>
    /\ UNCHANGED <<active_tables_nelem, epoch_vars, call_vars, ext_vars>>

\* a plausible slip: the test of dbid is inverted
DrainedEntriesOthers(map, db) == {e \in map : e.dbid # db}

\* the entries the drain loop moves to the local map: those of MyDatabaseId
DrainedEntries(map, db) == {e \in map : e.dbid = db}

\* a plausible slip: LWLockRelease after the drain loop is left out
DrainKeepsLock(p) ==
    /\ pc[p] = "oid_drain"
    /\ LET moved == DrainedEntries(active_tables_map[node[p]], MyDatabaseId[p]) IN
        /\ local_active_table_file_map' =
               [local_active_table_file_map EXCEPT ![p] = moved]
        /\ active_tables_map' =
               [active_tables_map EXCEPT ![node[p]] = @ \ moved]
    /\ pc' = [pc EXCEPT ![p] = "oid_resolve"]
    /\ UNCHANGED <<monitoring_dbid_cache, active_table_lock, node, MyDatabaseId,
                   local_active_table_stats_map, last_ret>>
    /\ UNCHANGED <<active_tables_nelem, epoch_vars, call_vars, ext_vars>>

\* the drain loop under the lock, and LWLockRelease
DrainRelease(p) ==
    /\ pc[p] = "oid_drain"
    /\ LET moved == DrainedEntries(active_tables_map[node[p]], MyDatabaseId[p]) IN
        /\ local_active_table_file_map' =
               [local_active_table_file_map EXCEPT ![p] = moved]
        /\ active_tables_map' =
               [active_tables_map EXCEPT ![node[p]] = @ \ moved]
    /\ active_table_lock' = [active_table_lock EXCEPT ![node[p]] = 0]
    /\ pc' = [pc EXCEPT ![p] = "oid_resolve"]
    /\ UNCHANGED <<monitoring_dbid_cache, node, MyDatabaseId,
                   local_active_table_stats_map, last_ret>>
    /\ UNCHANGED <<active_tables_nelem, epoch_vars, call_vars, ext_vars>>

\* a plausible slip: the relation of the file is entered, not its primary
ResolvedOidsNoPrimary(resolved) == {RelidOf(e) : e \in resolved}

\* the relation ids the resolve loop enters for the resolved entries
ResolvedOids(resolved) == {get_primary_table_oid(RelidOf(e)) : e \in resolved}

\* the end of get_active_tables_oid: the local maps are gone, the result is
\* handed to the caller
FetchReturns(p, oids, putback) ==
    /\ pc' = [pc EXCEPT ![p] = "idle"]
    /\ last_ret' = Returned("fetch", node[p], "oids", oids, putback)
    /\ node' = [node EXCEPT ![p] = "primary"]
    /\ MyDatabaseId' = [MyDatabaseId EXCEPT ![p] = NoDb]
    /\ local_active_table_file_map' = [local_active_table_file_map EXCEPT ![p] = {}]
    /\ local_active_table_stats_map' = [local_active_table_stats_map EXCEPT ![p] = {}]

\* a plausible slip: HASH_REMOVE on the local map is left out
UnresolvedKeepsAll(local, resolved) == local

\* what the resolve loop leaves in the local map: the entries whose
\* relfilenode has no relation (resolved entries are removed)
Unresolved(local, resolved) == local \ resolved

\* what the sweep leaves of a relation cache: the entries whose relation has
\* a row in the catalog
SweepCommitted(cache, catalog) == {c \in cache : c.relid \in catalog}

\* remove_committed_relation_from_cache() in a backend of node n: the sweep
\* of the node's relation cache
remove_committed_relation_from_cache(n) ==
    /\ relation_cache' = [relation_cache EXCEPT ![n] = SweepCommitted(@, pg_class)]
    /\ relation_cache_detail' = SweepCommitted(relation_cache_detail, pg_class)
    /\ swept' = TRUE
    /\ UNCHANGED <<pg_class, pending_unlink>>

\* what get_active_tables_oid leaves alone outside the active-table map
fetch_frame == <<wait_vars, size_vars, mailbox_vars, gate_vars, dbset_vars, chain_vars>>

\* the call of remove_committed_relation_from_cache, then the resolve loop
\* when get_relid_by_relfilenode finds the relation of the entries in
\* `resolved` and InvalidOid for the others: resolved entries leave the local
\* map. With nothing left the function returns, else it goes on to put back.
ResolveEntries(p, resolved) ==
    /\ pc[p] = "oid_resolve"
    /\ remove_committed_relation_from_cache(node[p])
    /\ resolved \subseteq local_active_table_file_map[p]
    /\ IF Unresolved(local_active_table_file_map[p], resolved) = {}
          THEN FetchReturns(p, ResolvedOids(resolved), FALSE)
          ELSE /\ pc' = [pc EXCEPT ![p] = "oid_putback_lock"]
               /\ local_active_table_stats_map' =
                      [local_active_table_stats_map EXCEPT ![p] = ResolvedOids(resolved)]
               /\ local_active_table_file_map' =
                      [local_active_table_file_map EXCEPT
                          ![p] = Unresolved(@, resolved)]
               /\ UNCHANGED <<last_ret, node, MyDatabaseId>>
    /\ UNCHANGED <<active_tables_map, monitoring_dbid_cache, active_table_lock>>
    /\ UNCHANGED <<active_tables_nelem, epoch_vars, call_vars, fetch_frame>>

\* the resolve loop, whatever the catalog answers for each entry
ResolveLoop(p) ==
    \E resolved \in SUBSET local_active_table_file_map[p] : ResolveEntries(p, resolved)

\* LWLockAcquire(active_table_lock, LW_EXCLUSIVE) before the put-back
PutBackLockAcquire(p) ==
    /\ pc[p] = "oid_putback_lock"
    /\ active_table_lock[node[p]] = 0
    /\ active_table_lock' = [active_table_lock EXCEPT ![node[p]] = p]
    /\ pc' = [pc EXCEPT ![p] = "oid_putback"]
    /\ UNCHANGED <<active_tables_map, monitoring_dbid_cache, node, MyDatabaseId,
                   local_active_table_file_map, local_active_table_stats_map, last_ret>>
    /\ UNCHANGED <<active_tables_nelem, epoch_vars, call_vars, ext_vars>>

\* a plausible slip: the put-back loop is left out
PutBackNothing(map, order, nelem, spare) == [map |-> map, nelem |-> nelem]

\* the put-back loop enters the entries one by one with HASH_ENTER_NULL, in the
\* order of the hash scan: `order` is that order; it leaves the map and the
\* elements the table owns
RECURSIVE PutBack(_, _, _, _)
PutBack(map, order, nelem, spare) ==
    IF order = <<>> THEN [map |-> map, nelem |-> nelem]
    ELSE LET r == HashEnterNull(map, Head(order), nelem, spare)
         IN PutBack(r.map, Tail(order), r.nelem, spare)

\* the sequences that list every element of S once
RECURSIVE Orders(_)
Orders(S) ==
    IF S = {} THEN {<<>>}
    ELSE UNION {{<<e>> \o o : o \in Orders(S \ {e})} : e \in S}

\* the put-back loop under the lock, LWLockRelease, hash_destroy and the return
PutBackRelease(p) ==
    /\ pc[p] = "oid_putback"
    /\ \E order \in Orders(local_active_table_file_map[p]), spare \in BOOLEAN :
           LET r == PutBack(active_tables_map[node[p]], order,
                            active_tables_nelem[node[p]], spare) IN
           /\ active_tables_map' = [active_tables_map EXCEPT ![node[p]] = r.map]
           /\ active_tables_nelem' = [active_tables_nelem EXCEPT ![node[p]] = r.nelem]
    /\ active_table_lock' = [active_table_lock EXCEPT ![node[p]] = 0]
    /\ FetchReturns(p, local_active_table_stats_map[p], TRUE)
    /\ UNCHANGED monitoring_dbid_cache
    /\ UNCHANGED <<epoch_vars, call_vars, ext_vars>>

Next ==
    \/ \E n \in Nodes, e \in FileEntries : report_active_table_helper(n, e)
    \/ \E p \in Procs, n \in Nodes, db \in DbIds, role \in GpRoles :
           diskquota_fetch_table_stat_oid(p, n, db, role)
    \/ \E p \in Procs : DrainLockAcquire(p)
    \/ \E p \in Procs : DrainRelease(p)
    \/ \E p \in Procs : ResolveLoop(p)
    \/ \E p \in Procs : PutBackLockAcquire(p)
    \/ \E p \in Procs : PutBackRelease(p)

Spec == Init /\ [][Next]_vars

(***************************************************************************)
(* FETCH_ACTIVE_SIZE on a segment: get_active_tables_stats.                *)
(***************************************************************************)
\* the relation ids an oid array may hold, and its NULL element
RelOids == {RelidOf(e) : e \in FileEntries}
NullElem == 0
ArrayElems == RelOids \cup {NullElem}
OidArrays == UNION {[1..n -> ArrayElems] : n \in 0..MaxArrayLen}

\* ARR_NULLBITMAP: an array has a null bitmap when it holds a NULL element
ARR_NULLBITMAP(array) == \E i \in 1..Len(array) : array[i] = NullElem
\* ARR_DATA_PTR: the data area holds the elements that are not NULL, in order
ARR_DATA_PTR(array) == SelectSeq(array, LAMBDA x : x # NullElem)

\* hash_search(HASH_ENTER) on a map keyed by (reloid, segid), then the
\* assignment of the entry's fields
EnterEntry(table, relOid, segId, tablesize) ==
    {x \in table : ~(x.reloid = relOid /\ x.segid = segId)}
        \cup {[reloid |-> relOid, segid |-> segId, tablesize |-> tablesize]}

\* the sub-transaction around pg_table_size without PG_CATCH: the error of
\* the computation leaves the function
SizeInSubXactNoCatch(size, raised) ==
    [tablesize |-> size, warnings |-> 0, failed |-> raised]

\* the sub-transaction with a PG_CATCH that forgets to reset the size
SizeInSubXactKeepsSize(size, raised) ==
    [tablesize |-> size, warnings |-> IF raised THEN 1 ELSE 0, failed |-> FALSE]

\* the sub-transaction around pg_table_size: the size when it commits; when
\* the computation (or the fault injector after it) raises, PG_CATCH rolls
\* the sub-transaction back, logs a WARNING and sets the size to 0
SizeInSubXact(size, raised) ==
    [tablesize |-> IF raised THEN 0 ELSE size,
     warnings |-> IF raised THEN 1 ELSE 0,
     failed |-> FALSE]

\* the loop of get_active_tables_stats from element i on: bit is the place
\* of the bitmap pointer and mask, ptr the place in the data area.  The
\* `continue' of a NULL element leaves both where they are.
RECURSIVE StatsLoop(_, _, _, _, _, _)
StatsLoop(array, i, bit, ptr, args, acc) ==
    IF i > Len(array) \/ acc.status # "TUPLES_OK" THEN acc
    ELSE IF ARR_NULLBITMAP(array) /\ array[bit] = NullElem
        THEN StatsLoop(array, i + 1, bit, ptr, args, acc)
    ELSE LET relOid == ARR_DATA_PTR(array)[ptr]
             r == SizeInSubXact(args.sizes[relOid], i \in args.raised)
         IN StatsLoop(array, i + 1,
                      IF ARR_NULLBITMAP(array) THEN bit + 1 ELSE bit,
                      ptr + 1, args,
                      [status |-> IF r.failed THEN "error" ELSE "TUPLES_OK",
                       rows |-> IF r.failed THEN {}
                                ELSE EnterEntry(acc.rows, relOid, args.segindex,
                                                r.tablesize),
                       warnings |-> acc.warnings + r.warnings])

\* get_active_tables_stats: the entries of local_table, which
\* diskquota_fetch_table_stat returns as tuples, and the WARNINGs logged.
\* args.sizes is what pg_table_size computes, args.raised the iterations of
\* the loop whose computation raises.
get_active_tables_stats(args) ==
    StatsLoop(args.array, 1, 1, 1, args,
              [status |-> "TUPLES_OK", rows |-> {}, warnings |-> 0])

\* the calls of SpecStats
StatsArgs ==
    {[fn |-> "get_active_tables_stats", array |-> a, segindex |-> s,
      sizes |-> z, raised |-> f] :
        a \in OidArrays, s \in Segs, z \in [RelOids -> Sizes],
        f \in SUBSET (1..MaxArrayLen)}

InitStats ==
    /\ ShmemIdle
    /\ BackendsIdle
    /\ last_ret = Returned("none", "primary", "none", {}, FALSE)
    /\ EpochIdle
    /\ call_args \in {x \in StatsArgs : x.raised \subseteq 1..Len(x.array)}
    /\ call_result = NoResult
    /\ ExtIdle

\* diskquota_fetch_table_stat(FETCH_ACTIVE_SIZE, array) on a segment
FetchActiveSize ==
    /\ call_args.fn = "get_active_tables_stats"
    /\ call_result.status = "none"
    /\ call_result' = get_active_tables_stats(call_args)
    /\ UNCHANGED <<active_tables_map, monitoring_dbid_cache, active_table_lock,
                   backend_vars, last_ret, epoch_vars, call_args>>
    /\ UNCHANGED <<active_tables_nelem, ext_vars>>

NextStats == FetchActiveSize

SpecStats == InitStats /\ [][NextStats]_vars

(***************************************************************************)
(* The size phase on the coordinator: pull_active_table_size_from_seg.     *)
(* A row is a tuple (TABLE_OID, TABLE_SIZE, GP_SEGMENT_ID) of a segment's  *)
(* result; the map is keyed by (reloid, segid).  Sizes are far from the    *)
(* width of Size (64 bits), so the sums are plain integers.                *)
(***************************************************************************)
\* the total of a relation that keeps the size of the last row
AddToTotalOverwrites(map, row) == EnterEntry(map, row.reloid, -1, row.tablesize)

\* the entry with segid -1: the first row of a relation creates it with the
\* row's size, every later row adds its size to it
AddToTotal(map, row) ==
    LET old == {x \in map : x.reloid = row.reloid /\ x.segid = -1} IN
    IF old = {}
        THEN map \cup {[reloid |-> row.reloid, segid |-> -1, tablesize |-> row.tablesize]}
        ELSE EnterEntry(map, row.reloid, -1,
                        (CHOOSE x \in old : TRUE).tablesize + row.tablesize)

\* one tuple of a result: with three fields the entry (reloid, segid) is set
\* to the tuple's size; the total is fed in every case
AddRow(map, row, nfields) ==
    AddToTotal(IF nfields = 3
                   THEN EnterEntry(map, row.reloid, row.segid, row.tablesize)
                   ELSE map,
               row)

\* the tuples of one result, in the order the result holds them
RECURSIVE AddRows(_, _, _)
AddRows(map, rows, nfields) ==
    IF rows = {} THEN map
    ELSE LET row == CHOOSE x \in rows : TRUE
         IN AddRows(AddRow(map, row, nfields), rows \ {row}, nfields)

\* a check of the result status that lets every result through
ResultFailsNever(result) == FALSE

\* PQresultStatus(pgresult) != PGRES_TUPLES_OK
ResultFails(result) == result.status # "TUPLES_OK"

\* the loop over the results from result i on: a result that is not
\* PGRES_TUPLES_OK raises an ERROR, and the map is not returned
RECURSIVE SumResults(_, _, _, _)
SumResults(map, results, nfields, i) ==
    IF i >= NumSegs THEN [status |-> "ok", rows |-> map]
    ELSE IF ResultFails(results[i]) THEN [status |-> "error", rows |-> {}]
    ELSE SumResults(AddRows(map, results[i].rows, nfields), results, nfields, i + 1)

\* pull_active_table_size_from_seg: SEGCOUNT is the number of results
pull_active_table_size_from_seg(map, results, nfields) ==
    IF NumSegs <= 0 THEN [status |-> "error", rows |-> {}]
    ELSE SumResults(map, results, nfields, 0)

\* what segment s may answer to FETCH_ACTIVE_SIZE: no tuples at all (the
\* command failed there), or one tuple for each relation it was asked for
SegRows(s, rels, z) ==
    {[reloid |-> r, segid |-> s, tablesize |-> z[r]] : r \in rels}
SizeResults(s) ==
    {[status |-> "error", rows |-> {}]}
        \cup {[status |-> "TUPLES_OK", rows |-> SegRows(s, rels, z)] :
                  rels \in SUBSET RelOids, z \in [RelOids -> Sizes]}

\* the calls of SpecAgg: the results of all segments, and the number of
\* fields of their tuples (2 for extension version 1, 3 for version 2)
AggArgs ==
    {[fn |-> "pull_active_table_size_from_seg", results |-> r, nfields |-> n] :
        r \in {f \in [Segs -> UNION {SizeResults(s) : s \in Segs}] :
                   \A s \in Segs : f[s] \in SizeResults(s)},
        n \in {2, 3}}

InitAgg ==
    /\ ShmemIdle
    /\ BackendsIdle
    /\ last_ret = Returned("none", "primary", "none", {}, FALSE)
    /\ EpochIdle
    /\ call_args \in AggArgs
    /\ call_result = NoResult
    /\ ExtIdle

\* the size phase of gp_fetch_active_tables on a new local_table_stats_map
PullActiveTableSize ==
    /\ call_args.fn = "pull_active_table_size_from_seg"
    /\ call_result.status = "none"
    /\ call_result' = pull_active_table_size_from_seg({}, call_args.results,
                                                        call_args.nfields)
    /\ UNCHANGED <<active_tables_map, monitoring_dbid_cache, active_table_lock,
                   backend_vars, last_ret, epoch_vars, call_args>>
    /\ UNCHANGED <<active_tables_nelem, ext_vars>>

NextAgg == PullActiveTableSize

SpecAgg == InitAgg /\ [][NextAgg]_vars

(***************************************************************************)
(* The coordinator's worker and the primary segments: one epoch is one     *)
(* call gp_fetch_active_tables(false).  CdbDispatchCommand sends a command *)
(* to every segment and waits for all the results; on segment s, backend s *)
(* runs diskquota_fetch_table_stat: the drain under the lock, then the     *)
(* lookups without it and the put-back under it, with the probes of the    *)
(* segment in between.  The worker's errors are caught by its caller,      *)
(* which runs the next epoch.                                              *)
(***************************************************************************)
\* MyDatabaseId of the worker and of the backends it dispatches to
WorkerDb == CHOOSE d \in MonitoredDbs : TRUE
\* the storage files the probes of SpecEpoch report: the files of that
\* database that belong to a primary relation itself
EpochEntries ==
    {e \in FileEntries :
        e.dbid = WorkerDb /\ get_primary_table_oid(RelidOf(e)) = RelidOf(e)}

\* the relations drained and reported in the running epoch are owed
OwedAfterDrain(ow, oids) ==
    [r \in DOMAIN ow |-> IF r \in oids /\ ow[r] = 0 THEN 1 ELSE ow[r]]
\* the fetch raised: what was drained in it was not returned
OwedAfterError(ow) ==
    [r \in DOMAIN ow |-> IF ow[r] = 1 THEN 2 ELSE ow[r]]
\* the fetch returned a map with the relations oids: one more fetch has
\* returned without the others that are owed
OwedAfterMap(ow, oids) ==
    [r \in DOMAIN ow |-> IF r \in oids \/ ow[r] = 0 THEN 0
                          ELSE IF ow[r] >= 4 THEN 4 ELSE ow[r] + 1]

\* the storage files the probes of SpecEpoch report: those, and the files of
\* the other monitored database, which the worker's calls leave in the maps
EpochProbes == EpochEntries \cup {e \in FileEntries : e.dbid \in MonitoredDbs \ {WorkerDb}}

\* the backends that serve the worker's commands on the segments, outside
\* any call
SegBackendsIdle ==
    /\ pc = [s \in Segs |-> "idle"]
    /\ node = [s \in Segs |-> "primary"]
    /\ MyDatabaseId = [s \in Segs |-> WorkerDb]
    /\ local_active_table_file_map = [s \in Segs |-> {}]
    /\ local_active_table_stats_map = [s \in Segs |-> {}]

InitEpoch ==
    /\ active_tables_map = [s \in Segs |-> {}]
    /\ active_tables_nelem = [s \in Segs |-> diskquota_max_active_tables]
    /\ monitoring_dbid_cache = MonitoredDbs
    /\ active_table_lock = [s \in Segs |-> 0]
    /\ SegBackendsIdle
    /\ last_ret = Returned("none", "dispatcher", "none", {}, FALSE)
    /\ EpochIdle
    /\ NoCall
    /\ ExtIdle

\* report_active_table_helper in a backend of primary segment s, for a
\* storage file of the worker's database
SegmentProbe(s, e) ==
    /\ ~ProbeSkips("primary", e.dbid)
    /\ active_table_lock[s] = 0
    /\ \E spare \in BOOLEAN :
        LET r == ProbeEnter(active_tables_map[s], e, active_tables_nelem[s], spare) IN
        /\ active_tables_map' = [active_tables_map EXCEPT ![s] = r.map]
        /\ active_tables_nelem' = [active_tables_nelem EXCEPT ![s] = r.nelem]
        /\ active_table_lock' = [active_table_lock EXCEPT ![s] = r.lock]
    /\ UNCHANGED <<monitoring_dbid_cache, backend_vars, last_ret, epoch_vars, call_vars>>
    /\ UNCHANGED ext_vars

\* gp_fetch_active_tables(false) up to the dispatch of FETCH_ACTIVE_OID: the
\* call creates a new, empty local_table_stats_map
gp_fetch_active_tables ==
    /\ epoch_phase = "idle"
    /\ epoch_phase' = "oid"
    /\ local_table_stats_map' = {}
    /\ last_ret' = Returned("none", "dispatcher", "none", {}, FALSE)
    /\ size_failed' = [s \in Segs |-> {}]
    /\ UNCHANGED <<active_tables_map, monitoring_dbid_cache, active_table_lock,
                   backend_vars, pg_results, active_oid_list, removed, owed,
                   call_vars>>
    /\ UNCHANGED <<active_tables_nelem, ext_vars>>

\* the values get_ext_major_version may return: the two versions the code
\* knows, and one it does not know
ExtMajorVersions == {1, 2, 3}

\* a plausible slip: the descriptor is created with three attributes
\* whatever the version
TupleColumnsAlwaysThree(extMajorVersion) == 3

\* the number of attributes of the tuple descriptor, by the switch on
\* extMajorVersion: 0 stands for the ERROR of the default case
TupleColumns(extMajorVersion) ==
    IF extMajorVersion = 1 THEN 2
    ELSE IF extMajorVersion = 2 THEN 3
    ELSE 0

\* the versions the segments of SpecEpoch run: version 2, whose tuples have
\* three fields, and the unknown one
EpochVersions == ExtMajorVersions \ {1}

\* the tuples FETCH_ACTIVE_OID returns: the entries of
\* local_active_table_stats_map
OidRows(oids) == {[reloid |-> o, segid |-> -1, tablesize |-> 0] : o \in oids}

\* diskquota_fetch_table_stat(FETCH_ACTIVE_OID) in the backend of segment s,
\* up to LWLockRelease after the drain loop of get_active_tables_oid: the
\* entries of the database move to the local map
FetchActiveOidDrain(s) ==
    /\ epoch_phase = "oid"
    /\ pg_results[s].status = "none"
    /\ pc[s] = "idle"
    /\ active_table_lock[s] = 0
    /\ LET drained == DrainedEntries(active_tables_map[s], WorkerDb) IN
        /\ active_tables_map' = [active_tables_map EXCEPT ![s] = @ \ drained]
        /\ local_active_table_file_map' =
               [local_active_table_file_map EXCEPT ![s] = drained]
    /\ pc' = [pc EXCEPT ![s] = "oid_resolve"]
    /\ UNCHANGED <<active_tables_nelem, monitoring_dbid_cache, active_table_lock, node,
                   MyDatabaseId, local_active_table_stats_map, last_ret, epoch_vars,
                   call_vars, ext_vars>>

\* the backend that serves the worker's commands on segment s, as a holder
\* of the segment's lock
SegBackend(s) == s + 1

\* get_active_tables_oid in the backend of segment s after the drain, with
\* the lock released: the sweep of the relation cache, then the resolve loop
\* when get_relid_by_relfilenode finds the relation of the entries in
\* `resolved` and InvalidOid for the others. The relations found are entered
\* in local_active_table_stats_map and their entries leave the local map;
\* with entries left the call goes on to LWLockAcquire, else to its return.
FetchActiveOidResolve(s, resolved) ==
    /\ epoch_phase = "oid"
    /\ pc[s] = "oid_resolve"
    /\ resolved \subseteq local_active_table_file_map[s]
    /\ remove_committed_relation_from_cache("primary")
    /\ local_active_table_stats_map' =
           [local_active_table_stats_map EXCEPT ![s] = ResolvedOids(resolved)]
    /\ local_active_table_file_map' =
           [local_active_table_file_map EXCEPT ![s] = Unresolved(@, resolved)]
    /\ removed' = [removed EXCEPT ![s] = resolved]
    /\ owed' = OwedAfterDrain(owed, ResolvedOids(resolved))
    /\ pc' = [pc EXCEPT ![s] =
                 IF Unresolved(local_active_table_file_map[s], resolved) = {}
                     THEN "oid_return" ELSE "oid_putback_lock"]
    /\ UNCHANGED <<active_tables_map, active_tables_nelem, monitoring_dbid_cache,
                   active_table_lock, node, MyDatabaseId, last_ret, epoch_phase,
                   pg_results, active_oid_list, local_table_stats_map, size_failed,
                   call_vars, fetch_frame>>

\* LWLockAcquire(active_table_lock, LW_EXCLUSIVE) before the put-back: the
\* backend waits until the lock is free
FetchActiveOidLock(s) ==
    /\ epoch_phase = "oid"
    /\ pc[s] = "oid_putback_lock"
    /\ active_table_lock[s] = 0
    /\ active_table_lock' = [active_table_lock EXCEPT ![s] = SegBackend(s)]
    /\ pc' = [pc EXCEPT ![s] = "oid_putback"]
    /\ UNCHANGED <<active_tables_map, active_tables_nelem, monitoring_dbid_cache, node,
                   MyDatabaseId, local_active_table_file_map,
                   local_active_table_stats_map, last_ret, epoch_vars, call_vars,
                   ext_vars>>

\* the end of the call: the put-back of the unresolved entries under the
\* lock and LWLockRelease when there are such entries, the return of
\* get_active_tables_oid, then the switch on the extension's version, which
\* raises the ERROR of an unknown version or lets the tuples be returned
FetchActiveOid(s, extMajorVersion) ==
    /\ epoch_phase = "oid"
    /\ pc[s] \in {"oid_putback", "oid_return"}
    /\ IF pc[s] = "oid_putback"
          THEN /\ \E order \in Orders(local_active_table_file_map[s]),
                     spare \in BOOLEAN :
                      LET r == PutBack(active_tables_map[s], order,
                                       active_tables_nelem[s], spare) IN
                      /\ active_tables_map' = [active_tables_map EXCEPT ![s] = r.map]
                      /\ active_tables_nelem' =
                             [active_tables_nelem EXCEPT ![s] = r.nelem]
               /\ active_table_lock' = [active_table_lock EXCEPT ![s] = 0]
          ELSE UNCHANGED <<active_tables_map, active_tables_nelem, active_table_lock>>
    /\ pg_results' = [pg_results EXCEPT
           ![s] = IF TupleColumns(extMajorVersion) = 0
                      THEN [status |-> "error", rows |-> {}]
                      ELSE [status |-> "TUPLES_OK",
                            rows |-> OidRows(local_active_table_stats_map[s])]]
    /\ pc' = [pc EXCEPT ![s] = "idle"]
    /\ local_active_table_file_map' = [local_active_table_file_map EXCEPT ![s] = {}]
    /\ local_active_table_stats_map' = [local_active_table_stats_map EXCEPT ![s] = {}]
    /\ UNCHANGED <<monitoring_dbid_cache, node, MyDatabaseId, last_ret, epoch_phase,
                   active_oid_list, local_table_stats_map, size_failed, removed, owed,
                   call_vars, ext_vars>>

\* the call raises before it drains anything: the segment is down, or
\* SPI_connect fails
FetchActiveOidFails(s) ==
    /\ epoch_phase = "oid"
    /\ pg_results[s].status = "none"
    /\ pc[s] = "idle"
    /\ pg_results' = [pg_results EXCEPT ![s] = [status |-> "error", rows |-> {}]]
    /\ UNCHANGED <<active_tables_map, active_tables_nelem, monitoring_dbid_cache,
                   active_table_lock, backend_vars, last_ret, epoch_phase,
                   active_oid_list, local_table_stats_map, size_failed, removed, owed,
                   call_vars, ext_vars>>

\* the call raises in the lookups of the resolve loop, or is cancelled there:
\* the local map is freed with the entries the drain moved to it
FetchActiveOidRaises(s) ==
    /\ epoch_phase = "oid"
    /\ pc[s] = "oid_resolve"
    /\ remove_committed_relation_from_cache("primary")
    /\ pg_results' = [pg_results EXCEPT ![s] = [status |-> "error", rows |-> {}]]
    /\ removed' = [removed EXCEPT ![s] = local_active_table_file_map[s]]
    /\ pc' = [pc EXCEPT ![s] = "idle"]
    /\ local_active_table_file_map' = [local_active_table_file_map EXCEPT ![s] = {}]
    /\ UNCHANGED <<active_tables_map, active_tables_nelem, monitoring_dbid_cache,
                   active_table_lock, node, MyDatabaseId, local_active_table_stats_map,
                   last_ret, epoch_phase, active_oid_list, local_table_stats_map,
                   size_failed, owed, call_vars, fetch_frame>>

\* the loop of pull_active_list_from_seg from result i on: a result that is
\* not PGRES_TUPLES_OK raises an ERROR; the relation ids of the others are
\* entered once each in local_active_table_oid_map
RECURSIVE ListResults(_, _, _)
ListResults(map, results, i) ==
    IF i >= NumSegs THEN [status |-> "ok", rows |-> map]
    ELSE IF ResultFails(results[i]) THEN [status |-> "error", rows |-> {}]
    ELSE ListResults(map \cup OidRows({x.reloid : x \in results[i].rows}),
                     results, i + 1)

\* a plausible slip: the loop starts at the last result
pull_active_list_from_last_seg(results) == ListResults({}, results, NumSegs - 1)

pull_active_list_from_seg(results) == ListResults({}, results, 0)

\* convert_map_to_string: the relation ids of the map, once each, in the
\* order of the hash scan; the segments read the string as their oid array
convert_map_to_string(map) == Orders({x.reloid : x \in map})

\* all the segments have answered the dispatched command
AllResultsIn == \A s \in Segs : pg_results[s].status # "none"

\* gp_fetch_active_tables from the results of FETCH_ACTIVE_OID up to the
\* dispatch of FETCH_ACTIVE_SIZE, or up to the ERROR of a failed result
PullActiveList ==
    /\ epoch_phase = "oid"
    /\ AllResultsIn
    /\ LET r == pull_active_list_from_seg(pg_results) IN
        IF r.status = "error"
            THEN /\ epoch_phase' = "idle"
                 /\ last_ret' = Returned("fetch", "dispatcher", "error", {}, FALSE)
                 /\ owed' = OwedAfterError(owed)
                 /\ removed' = [s \in Segs |-> {}]
                 /\ pg_results' = [s \in Segs |-> NoResult]
                 /\ UNCHANGED active_oid_list
            ELSE /\ epoch_phase' = "size"
                 /\ active_oid_list' \in convert_map_to_string(r.rows)
                 /\ pg_results' = [s \in Segs |-> NoResult]
                 /\ UNCHANGED <<last_ret, owed, removed>>
    /\ UNCHANGED <<active_tables_map, monitoring_dbid_cache, active_table_lock,
                   backend_vars, local_table_stats_map, size_failed, call_vars>>
    /\ UNCHANGED <<active_tables_nelem, ext_vars>>

\* diskquota_fetch_table_stat(FETCH_ACTIVE_SIZE, active_oid_list) on
\* segment s: z is what pg_table_size computes there, f the elements of the
\* array whose computation raises
FetchActiveSizeWith(s, z, f) ==
    /\ epoch_phase = "size"
    /\ pg_results[s].status = "none"
    /\ LET r == get_active_tables_stats([array |-> active_oid_list, segindex |-> s,
                                         sizes |-> z, raised |-> f]) IN
        /\ pg_results' = [pg_results EXCEPT
               ![s] = [status |-> r.status, rows |-> r.rows]]
        /\ size_failed' = [size_failed EXCEPT ![s] = {active_oid_list[i] : i \in f}]
    /\ UNCHANGED <<active_tables_map, monitoring_dbid_cache, active_table_lock,
                   backend_vars, last_ret, epoch_phase, active_oid_list,
                   local_table_stats_map, removed, owed, call_vars>>
    /\ UNCHANGED <<active_tables_nelem, ext_vars>>

\* the call, whatever the sizes and whichever computations raise
FetchActiveSizeSeg(s) ==
    \E z \in [{active_oid_list[i] : i \in 1..Len(active_oid_list)} -> Sizes],
       f \in SUBSET (1..Len(active_oid_list)) : FetchActiveSizeWith(s, z, f)

\* the same call when the segment's result is not PGRES_TUPLES_OK
FetchActiveSizeFails(s) ==
    /\ epoch_phase = "size"
    /\ pg_results[s].status = "none"
    /\ pg_results' = [pg_results EXCEPT ![s] = [status |-> "error", rows |-> {}]]
    /\ UNCHANGED <<active_tables_map, monitoring_dbid_cache, active_table_lock,
                   backend_vars, last_ret, epoch_phase, active_oid_list,
                   local_table_stats_map, size_failed, removed, owed, call_vars>>
    /\ UNCHANGED <<active_tables_nelem, ext_vars>>

\* gp_fetch_active_tables from the results of FETCH_ACTIVE_SIZE (tuples of
\* three fields, extension version 2) to its return, or to the ERROR of a
\* failed result
PullActiveTableSizeFromSeg ==
    /\ epoch_phase = "size"
    /\ AllResultsIn
    /\ epoch_phase' = "idle"
    /\ removed' = [s \in Segs |-> {}]
    /\ pg_results' = [s \in Segs |-> NoResult]
    /\ active_oid_list' = <<>>
    /\ LET r == pull_active_table_size_from_seg({}, pg_results, 3) IN
        IF r.status = "error"
            THEN /\ last_ret' = Returned("fetch", "dispatcher", "error", {}, FALSE)
                 /\ owed' = OwedAfterError(owed)
                 /\ UNCHANGED local_table_stats_map
            ELSE /\ last_ret' = Returned("fetch", "dispatcher", "map",
                                         {x.reloid : x \in r.rows}, FALSE)
                 /\ owed' = OwedAfterMap(owed, {x.reloid : x \in r.rows})
                 /\ local_table_stats_map' = r.rows
    /\ UNCHANGED <<active_tables_map, monitoring_dbid_cache, active_table_lock,
                   backend_vars, size_failed, call_vars>>
    /\ UNCHANGED <<active_tables_nelem, ext_vars>>

NextEpoch ==
    \/ \E s \in Segs, e \in EpochProbes : SegmentProbe(s, e)
    \/ gp_fetch_active_tables
    \/ \E s \in Segs : FetchActiveOidDrain(s)
    \/ \E s \in Segs, resolved \in SUBSET EpochEntries : FetchActiveOidResolve(s, resolved)
    \/ \E s \in Segs : FetchActiveOidLock(s)
    \/ \E s \in Segs, v \in EpochVersions : FetchActiveOid(s, v)
    \/ \E s \in Segs : FetchActiveOidFails(s)
    \/ \E s \in Segs : FetchActiveOidRaises(s)
    \/ PullActiveList
    \/ \E s \in Segs : FetchActiveSizeSeg(s)
    \/ \E s \in Segs : FetchActiveSizeFails(s)
    \/ PullActiveTableSizeFromSeg

SpecEpoch == InitEpoch /\ [][NextEpoch]_vars

(***************************************************************************)
(* One fetch over segments whose maps hold files of two relations: the     *)
(* drain phase, the oid list, the size phase.                              *)
(***************************************************************************)
\* the storage files of the worker's database in the maps: two files, each of
\* a primary relation of its own
FanoutRelFileNodes == {1, 3}
FanoutEntries ==
    {[dbid |-> WorkerDb, relfilenode |-> r, tablespaceoid |-> t] :
        r \in FanoutRelFileNodes, t \in Tablespaces}

\* the probes have filled the segments' maps, each within its capacity
InitFanout ==
    /\ active_tables_map \in
           [Segs -> {m \in SUBSET FanoutEntries :
                        Cardinality(m) <= diskquota_max_active_tables}]
    /\ active_tables_nelem = [s \in Segs |-> diskquota_max_active_tables]
    /\ monitoring_dbid_cache = MonitoredDbs
    /\ active_table_lock = [s \in Segs |-> 0]
    /\ SegBackendsIdle
    /\ last_ret = Returned("none", "dispatcher", "none", {}, FALSE)
    /\ EpochIdle
    /\ NoCall
    /\ ExtIdle

\* FETCH_ACTIVE_SIZE on segment s while the files are at rest: every relation
\* of the array has the same size on every segment and no computation raises
FanoutSizeSeg(s) ==
    \E z \in [{active_oid_list[i] : i \in 1..Len(active_oid_list)} -> {MaxTableSize}] :
        FetchActiveSizeWith(s, z, {})

NextFanout ==
    \/ gp_fetch_active_tables
    \/ \E s \in Segs : FetchActiveOidDrain(s)
    \/ \E s \in Segs, resolved \in SUBSET FanoutEntries : FetchActiveOidResolve(s, resolved)
    \/ \E s \in Segs : FetchActiveOidLock(s)
    \/ \E s \in Segs, v \in EpochVersions : FetchActiveOid(s, v)
    \/ \E s \in Segs : FetchActiveOidFails(s)
    \/ \E s \in Segs : FetchActiveOidRaises(s)
    \/ PullActiveList
    \/ \E s \in Segs : FanoutSizeSeg(s)
    \/ \E s \in Segs : FetchActiveSizeFails(s)
    \/ PullActiveTableSizeFromSeg

SpecFanout == InitFanout /\ [][NextFanout]_vars

(***************************************************************************)
(* What depends on the extension's major version: the tuples of            *)
(* diskquota_fetch_table_stat, and load_table_size, the initial fetch      *)
(* gp_fetch_active_tables(true).                                           *)
(***************************************************************************)
\* heap_form_tuple with a descriptor of natts attributes: the tuple carries
\* the first natts of the values reloid, tablesize, segid
FormTuple(entry, natts) ==
    IF natts = 3
        THEN [reloid |-> entry.reloid, tablesize |-> entry.tablesize,
              segid |-> entry.segid]
        ELSE [reloid |-> entry.reloid, tablesize |-> entry.tablesize]

\* the result of diskquota_fetch_table_stat on a segment whose
\* localCacheTable holds `entries`: the ERROR of an unknown version, else one
\* tuple for each entry
FetchTableStatResult(extMajorVersion, entries) ==
    LET natts == TupleColumns(extMajorVersion) IN
    IF natts = 0 THEN [status |-> "error", nfields |-> 0, rows |-> {}]
    ELSE [status |-> "TUPLES_OK", nfields |-> natts,
          rows |-> {FormTuple(e, natts) : e \in entries}]

\* PQnfields of the results: all segments run the same version
PQnfields(results) == results[CHOOSE s \in Segs : TRUE].nfields

\* the rows of diskquota.table_size: the table of version 2 has the primary
\* key (tableid, segid), the table of version 1 has no column segid and the
\* primary key tableid; size may be NULL. nulls is the set of the columns
\* that are NULL.
MaxTableRows == 2
TableSizeKeys(extMajorVersion) ==
    IF extMajorVersion = 1 THEN {<<r>> : r \in RelOids}
    ELSE {<<r, g>> : r \in RelOids, g \in {-1} \cup Segs}
TableSizeValues ==
    {[size |-> z, nulls |-> {}] : z \in Sizes} \cup {[size |-> 0, nulls |-> {2}]}
TableSizeRow(extMajorVersion, key, value) ==
    IF extMajorVersion = 1
        THEN [tableid |-> key[1], size |-> value.size, nulls |-> value.nulls]
        ELSE [tableid |-> key[1], size |-> value.size, segid |-> key[2],
              nulls |-> value.nulls]
\* a table of at most MaxTableRows rows: one row for each key present
TableSizeTable(extMajorVersion, keys, f) ==
    {TableSizeRow(extMajorVersion, k, f[k]) : k \in keys}
TableSizeKeySets(extMajorVersion) ==
    {K \in SUBSET TableSizeKeys(extMajorVersion) : Cardinality(K) <= MaxTableRows}

\* SPI_execute of the query load_table_size builds for the version: for
\* version 1 the third column is the constant CAST(-1 AS smallint)
SPI_execute(extMajorVersion, table) ==
    IF extMajorVersion = 1
        THEN {[tableid |-> r.tableid, size |-> r.size, segid |-> -1,
               nulls |-> r.nulls] : r \in table}
        ELSE table

\* a plausible slip: the isnull tests are left out
LoadRowSkippedNever(row) == FALSE

\* the three isnull tests of the loop: the row is skipped
LoadRowSkipped(row) == 1 \in row.nulls \/ 2 \in row.nulls \/ 3 \in row.nulls

\* the loop of load_table_size over the rows SPI returned
RECURSIVE LoadRows(_, _)
LoadRows(map, rows) ==
    IF rows = {} THEN map
    ELSE LET row == CHOOSE x \in rows : TRUE
             next == IF LoadRowSkipped(row) THEN map
                     ELSE EnterEntry(map, row.tableid, row.segid, row.size)
         IN LoadRows(next, rows \ {row})

\* load_table_size on an empty local_table_stats_map: the ERROR of an unknown
\* version, of a failed SPI_execute and of a corrupted table_size, else the
\* map the loop fills
load_table_size(args) ==
    IF args.version \notin {1, 2} THEN [status |-> "error", rows |-> {}]
    ELSE IF args.ret # "SPI_OK_SELECT" THEN [status |-> "error", rows |-> {}]
    ELSE IF args.corrupted THEN [status |-> "error", rows |-> {}]
    ELSE [status |-> "ok", rows |-> LoadRows({}, SPI_execute(args.version, args.table))]

\* a call of load_table_size: the table read is the table of the version the
\* extension has
LoadArgs(v, table, r, c) ==
    [fn |-> "load_table_size", version |-> v, table |-> table, ret |-> r,
     corrupted |-> c]
\* the calls of the size phase under a version
VersionArgs ==
    {[fn |-> "diskquota_fetch_table_stat", version |-> v,
      entries |-> [s \in Segs |-> SegRows(s, c[s].rels, c[s].z)]] :
        v \in ExtMajorVersions,
        c \in [Segs -> [rels : SUBSET RelOids, z : [RelOids -> Sizes]]]}

\* the segments' maps hold what the probes recorded
InitVersion ==
    /\ active_tables_map = [s \in Segs |-> EpochEntries]
    /\ active_tables_nelem = [s \in Segs |-> diskquota_max_active_tables]
    /\ monitoring_dbid_cache = MonitoredDbs
    /\ active_table_lock = [s \in Segs |-> 0]
    /\ BackendsIdle
    /\ last_ret = Returned("none", "dispatcher", "none", {}, FALSE)
    /\ EpochIdle
    /\ \/ \E v \in ExtMajorVersions, r \in {"SPI_OK_SELECT", "SPI_ERROR_CONNECT"},
             c \in BOOLEAN :
             \E keys \in TableSizeKeySets(v) : \E f \in [keys -> TableSizeValues] :
                 call_args = LoadArgs(v, TableSizeTable(v, keys, f), r, c)
       \/ call_args \in VersionArgs
    /\ call_result = NoResult
    /\ ExtIdle

\* gp_fetch_active_tables(true): load_table_size fills the new
\* local_table_stats_map and the map is returned; nothing is dispatched
gp_fetch_active_tables_init ==
    /\ call_args.fn = "load_table_size"
    /\ call_result.status = "none"
    /\ epoch_phase = "idle"
    /\ LET r == load_table_size(call_args) IN
        /\ call_result' = r
        /\ local_table_stats_map' = r.rows
        /\ last_ret' = Returned("fetch", "dispatcher",
                                IF r.status = "ok" THEN "map" ELSE "error",
                                {x.reloid : x \in r.rows}, FALSE)
    /\ UNCHANGED <<active_tables_map, monitoring_dbid_cache, active_table_lock,
                   backend_vars, epoch_phase, pg_results, active_oid_list,
                   size_failed, removed, owed, call_args>>
    /\ UNCHANGED <<active_tables_nelem, ext_vars>>

\* the size phase under one extension version: every segment returns the
\* tuples of its entries, the coordinator sums them by the number of fields
\* of the results
FetchTableStatUnderVersion ==
    /\ call_args.fn = "diskquota_fetch_table_stat"
    /\ call_result.status = "none"
    /\ LET results == [s \in Segs |->
               FetchTableStatResult(call_args.version, call_args.entries[s])]
           r == pull_active_table_size_from_seg({}, results, PQnfields(results))
       IN call_result' = [status |-> r.status, rows |-> r.rows, results |-> results]
    /\ UNCHANGED <<active_tables_map, monitoring_dbid_cache, active_table_lock,
                   backend_vars, last_ret, epoch_vars, call_args>>
    /\ UNCHANGED <<active_tables_nelem, ext_vars>>

NextVersion ==
    \/ gp_fetch_active_tables_init
    \/ FetchTableStatUnderVersion

SpecVersion == InitVersion /\ [][NextVersion]_vars

(***************************************************************************)
(* The hooks of the storage manager and the object-access hook, with the   *)
(* relation cache they feed.                                               *)
(***************************************************************************)
InvalidOid == 0
RelationRelationId == 1259
FirstNormalObjectId == 16384

\* the file hooks, and what the object-access hook may be called with
FileHooks == {"smgrcreate", "smgrextend", "smgrtruncate", "smgrunlink"}
AccessTypes == {"OAT_POST_CREATE", "OAT_DROP"}
ClassIds == {RelationRelationId, RelationRelationId + 1}
ObjectIds == {FirstNormalObjectId - 1, FirstNormalObjectId, FirstNormalObjectId + 1}
SubIds == {0, 1}

\* update_relation_cache(relid): the entry of relid is inserted or replaced
\* with what the catalog holds for it, here its relfilenode
update_relation_cache(cache, relid, relfilenode) ==
    {c \in cache : c.relid # relid}
        \cup {[relid |-> relid, relfilenode |-> relfilenode]}

\* remove_cache_entry(relid, relfilenode): the entry of relid is removed;
\* with InvalidOid the cache is scanned for the entries of the relfilenode
remove_cache_entry(cache, relid, relfilenode) ==
    IF relid = InvalidOid
        THEN {c \in cache : c.relfilenode # relfilenode}
        ELSE {c \in cache : c.relid # relid}

\* a plausible slip: the unlink hook reports the file like the other hooks
HookReportsAlways(hook) == TRUE

\* the hooks that call report_active_table_helper: create, extend, truncate
HookReports(hook) == hook \in {"smgrcreate", "smgrextend", "smgrtruncate"}

\* active_table_hook_smgrcreate, _smgrextend, _smgrtruncate and _smgrunlink
\* in a backend of node n, for the file e: the first three report the file,
\* the last only calls remove_cache_entry(InvalidOid, rnode.node.relNode)
active_table_hook(hook, n, e) ==
    /\ IF HookReports(hook)
          THEN ReportActiveTable(n, e)
          ELSE /\ last_ret' = Returned(hook, n, "none", {}, FALSE)
               /\ UNCHANGED <<active_tables_map, active_tables_nelem, active_table_lock>>
    /\ relation_cache' =
           IF hook = "smgrunlink"
               THEN [relation_cache EXCEPT
                        ![n] = remove_cache_entry(@, InvalidOid, e.relfilenode)]
               ELSE relation_cache
    /\ UNCHANGED <<monitoring_dbid_cache, backend_vars, epoch_vars, call_vars,
                   wait_vars, size_vars, quota_vars>>

\* a plausible slip: "and" in place of "or", as the TODO of the code asks
NotARelationAnd(classId, subId) == classId # RelationRelationId /\ subId # 0

\* classId != RelationRelationId || subId != 0
NotARelation(classId, subId) == classId # RelationRelationId \/ subId # 0

\* the three early returns of object_access_hook_QuotaStmt
QuotaStmtReturns(access, classId, objectId, subId) ==
    \/ NotARelation(classId, subId)
    \/ objectId < FirstNormalObjectId
    \/ access # "OAT_POST_CREATE"

\* the early returns of report_relation_cache_helper
RelationCacheSkips(n, dbid) ==
    \/ IS_QUERY_DISPATCHER(n) \/ IsRoleMirror(n)
    \/ dbid \notin monitoring_dbid_cache

\* the arguments of a call of the object-access hook: the node and the
\* database of the backend, the hook's parameters, and what the catalog holds
\* for the object
HookArgs(n, db, access, classId, objectId, subId, relfilenode) ==
    [fn |-> "object_access_hook_QuotaStmt", node |-> n, MyDatabaseId |-> db,
     access |-> access, classId |-> classId, objectId |-> objectId,
     subId |-> subId, relfilenode |-> relfilenode]

\* object_access_hook_QuotaStmt in a backend of node n connected to database
\* db; relfilenode is what the catalog holds for the object
object_access_hook_QuotaStmt(n, db, access, classId, objectId, subId, relfilenode) ==
    /\ call_args' = HookArgs(n, db, access, classId, objectId, subId, relfilenode)
    /\ IF QuotaStmtReturns(access, classId, objectId, subId) \/ RelationCacheSkips(n, db)
          THEN /\ last_ret' = Returned("object_access", n, "skipped", {}, FALSE)
               /\ UNCHANGED relation_cache
          ELSE /\ last_ret' = Returned("object_access", n, "updated", {objectId}, FALSE)
               /\ relation_cache' = [relation_cache EXCEPT
                      ![n] = update_relation_cache(@, objectId, relfilenode)]
    /\ UNCHANGED <<active_tables_map, active_tables_nelem, monitoring_dbid_cache,
                   active_table_lock, backend_vars, epoch_vars, call_result, wait_vars,
                   size_vars, quota_vars>>

NextObjectAccess ==
    \E n \in Nodes, db \in DbIds, access \in AccessTypes, classId \in ClassIds,
       objectId \in ObjectIds, subId \in SubIds, relfilenode \in RelFileNodes :
        object_access_hook_QuotaStmt(n, db, access, classId, objectId, subId,
                                     relfilenode)

SpecObjectAccess == Init /\ [][NextObjectAccess]_vars

\* the relation caches the object-access hook can have built on a primary:
\* at most one entry for each relation
RelationCaches ==
    UNION {{{[relid |-> r, relfilenode |-> f[r]] : r \in relids} :
               f \in [relids -> RelFileNodes]} :
           relids \in SUBSET {o \in ObjectIds : o >= FirstNormalObjectId}}

\* the file hooks on nodes whose maps are empty and whose primary has a
\* relation cache
InitHooks ==
    /\ ShmemIdle
    /\ BackendsIdle
    /\ last_ret = Returned("none", "primary", "none", {}, FALSE)
    /\ EpochIdle
    /\ NoCall
    /\ WaitIdle
    /\ SizeIdle
    /\ QuotaIdle
    /\ \E cache \in RelationCaches :
           relation_cache = [n \in Nodes |-> IF n = "primary" THEN cache ELSE {}]

NextHooks ==
    \E hook \in FileHooks, n \in Nodes, e \in FileEntries : active_table_hook(hook, n, e)

SpecHooks == InitHooks /\ [][NextHooks]_vars

(***************************************************************************)
(* wait_for_worker_new_epoch and the worker's loop on the coordinator, as  *)
(* the isolation test test_worker_timeout drives them: the fault           *)
(* 'diskquota_worker_main' suspends the worker, a backend waits for a new  *)
(* epoch, pg_cancel_backend cancels it, the fault is resumed.              *)
(***************************************************************************)
\* the epochs the model follows the worker through
MaxEpoch == 2

\* what the operations of this section leave alone
core_vars == <<active_tables_map, active_tables_nelem, monitoring_dbid_cache,
               active_table_lock, backend_vars, last_ret, epoch_vars, call_vars>>

\* gp_inject_fault_infinite('diskquota_worker_main', 'suspend', dbid)
InjectSuspend ==
    /\ fault = "none"
    /\ fault' = "suspend"
    /\ UNCHANGED <<WorkerEpoch, worker_pc, wait_pc, wait_start, QueryCancelPending,
                   core_vars, quota_vars, hook_vars, size_vars>>

\* gp_inject_fault_infinite('diskquota_worker_main', 'resume', dbid)
ResumeFault ==
    /\ fault = "suspend"
    /\ fault' = "none"
    /\ UNCHANGED <<WorkerEpoch, worker_pc, wait_pc, wait_start, QueryCancelPending,
                   core_vars, quota_vars, hook_vars, size_vars>>

\* the top of the worker's loop: the worker stays at the fault point while the
\* fault is suspended, then sleeps for the nap time (a waiting backend's
\* signal ends the sleep early)
WorkerLoopTop ==
    /\ worker_pc = "top"
    /\ fault # "suspend"
    /\ worker_pc' = "refresh"
    /\ UNCHANGED <<WorkerEpoch, fault, wait_pc, wait_start, QueryCancelPending,
                   core_vars, quota_vars, hook_vars, size_vars>>

\* the worker refreshes the quota model unless it is paused
WorkerRefresh ==
    /\ worker_pc = "refresh"
    /\ worker_pc' = "advance"
    /\ UNCHANGED <<WorkerEpoch, fault, wait_pc, wait_start, QueryCancelPending,
                   core_vars, quota_vars, hook_vars, size_vars>>

\* the worker increments WorkerEpoch and goes back to the top of its loop
WorkerNewEpoch ==
    /\ worker_pc = "advance"
    /\ WorkerEpoch < MaxEpoch
    /\ WorkerEpoch' = WorkerEpoch + 1
    /\ worker_pc' = "top"
    /\ UNCHANGED <<fault, wait_pc, wait_start, QueryCancelPending,
                   core_vars, quota_vars, hook_vars, size_vars>>

\* SELECT diskquota.wait_for_worker_new_epoch() in backend p: the call
\* remembers the current epoch and starts to wait
wait_for_worker_new_epoch(p) ==
    /\ wait_pc[p] = "idle"
    /\ wait_pc' = [wait_pc EXCEPT ![p] = "waiting"]
    /\ wait_start' = [wait_start EXCEPT ![p] = WorkerEpoch]
    /\ QueryCancelPending' = [QueryCancelPending EXCEPT ![p] = FALSE]
    /\ UNCHANGED <<WorkerEpoch, worker_pc, fault, core_vars, quota_vars, hook_vars, size_vars>>

\* pg_cancel_backend(pid) for the waiting backend p
pg_cancel_backend(p) ==
    /\ wait_pc[p] = "waiting"
    /\ ~QueryCancelPending[p]
    /\ QueryCancelPending' = [QueryCancelPending EXCEPT ![p] = TRUE]
    /\ UNCHANGED <<WorkerEpoch, worker_pc, fault, wait_pc, wait_start,
                   core_vars, quota_vars, hook_vars, size_vars>>

\* a plausible slip: the waiting loop never tests for interrupts
WaitInterruptedNever(p) == FALSE

\* the waiting loop's test for interrupts: a cancel request is pending
WaitInterrupted(p) == QueryCancelPending[p]

\* the epoch has advanced at least once since the call started
NewEpochSeen(p) == WorkerEpoch # wait_start[p]

\* one round of the waiting loop of backend p: a pending cancel request ends
\* the call with an error, a new epoch ends it with its result, otherwise the
\* backend goes on waiting
WaitCheck(p) ==
    /\ wait_pc[p] = "waiting"
    /\ WaitInterrupted(p) \/ NewEpochSeen(p)
    /\ IF WaitInterrupted(p)
          THEN /\ wait_pc' = [wait_pc EXCEPT ![p] = "cancelled"]
               /\ QueryCancelPending' = [QueryCancelPending EXCEPT ![p] = FALSE]
          ELSE /\ wait_pc' = [wait_pc EXCEPT ![p] = "returned"]
               /\ UNCHANGED QueryCancelPending
    /\ UNCHANGED <<WorkerEpoch, worker_pc, fault, wait_start,
                   core_vars, quota_vars, hook_vars, size_vars>>

\* the session of backend p has read the outcome of its call
WaitDone(p) ==
    /\ wait_pc[p] \in {"returned", "cancelled"}
    /\ wait_pc' = [wait_pc EXCEPT ![p] = "idle"]
    /\ UNCHANGED <<WorkerEpoch, worker_pc, fault, wait_start, QueryCancelPending,
                   core_vars, quota_vars, hook_vars, size_vars>>

NextWait ==
    \/ InjectSuspend
    \/ ResumeFault
    \/ WorkerLoopTop
    \/ WorkerRefresh
    \/ WorkerNewEpoch
    \/ \E p \in Procs : wait_for_worker_new_epoch(p)
    \/ \E p \in Procs : pg_cancel_backend(p)
    \/ \E p \in Procs : WaitCheck(p)
    \/ \E p \in Procs : WaitDone(p)

\* a waiting backend runs its loop: its latch wait ends on a signal or on a
\* timeout, so a round that can end the call is eventually taken
SpecWait == Init /\ [][NextWait]_vars /\ \A p \in Procs : WF_vars(WaitCheck(p))

(***************************************************************************)
(* diskquota.relation_size(relation): the SQL function runs               *)
(* relation_size_local on every segment (gp_dist_random('pg_class')) and   *)
(* on the coordinator (pg_class) and sums the results.  A file is a record *)
(* [exists, size]: size is what the file holds, or held when it was        *)
(* unlinked.                                                               *)
(***************************************************************************)
\* the relation of the call exists when the call starts: every node has its
\* storage file, of any size
InitSize ==
    /\ ShmemIdle
    /\ BackendsIdle
    /\ last_ret = Returned("none", "primary", "none", {}, FALSE)
    /\ EpochIdle
    /\ NoCall
    /\ HooksIdle
    /\ WaitIdle
    /\ relfile \in [SizeNodes -> [exists : {TRUE}, size : Sizes]]
    /\ SizeCallIdle
    /\ QuotaIdle

\* SELECT diskquota.relation_size(relation): the statement reads the
\* relation's row of pg_class on every node and calls relation_size_local
\* there; each call is now before its stat of the file (the fault point
\* 'diskquota_before_stat_relfilenode')
relation_size ==
    /\ relation_size_result.status = "none"
    /\ \A n \in SizeNodes : stat_pc[n] = "idle"
    /\ stat_pc' = [n \in SizeNodes |-> "before_stat"]
    /\ UNCHANGED <<relfile, stat_result, enoent, relation_size_result,
                   core_vars, quota_vars, hook_vars, wait_vars>>

\* DROP TABLE committed after the statement has read the row: node n unlinks
\* the relation's file
UnlinkFile(n) ==
    /\ stat_pc[n] # "idle"
    /\ relfile[n].exists
    /\ relfile' = [relfile EXCEPT ![n].exists = FALSE]
    /\ UNCHANGED <<stat_pc, stat_result, enoent, relation_size_result,
                   core_vars, quota_vars, hook_vars, wait_vars>>

\* a plausible slip: the stat of a missing file raises as any failed stat
StatFileRaises(file) ==
    IF file.exists THEN [status |-> "ok", size |-> file.size]
    ELSE [status |-> "error", size |-> 0]

\* stat of the file in relation_size_local: ENOENT counts as 0 bytes
StatFile(file) ==
    IF file.exists THEN [status |-> "ok", size |-> file.size]
    ELSE [status |-> "ok", size |-> 0]

\* relation_size_local(reltablespace, relfilenode, is_temp) on node n
relation_size_local(n) ==
    /\ stat_pc[n] = "before_stat"
    /\ stat_result' = [stat_result EXCEPT ![n] = StatFile(relfile[n])]
    /\ enoent' = [enoent EXCEPT ![n] = ~relfile[n].exists]
    /\ stat_pc' = [stat_pc EXCEPT ![n] = "done"]
    /\ UNCHANGED <<relfile, relation_size_result, core_vars, quota_vars, hook_vars, wait_vars>>

\* sum(size) over the rows of the nodes in S
RECURSIVE SumOfSizes(_, _)
SumOfSizes(results, S) ==
    IF S = {} THEN 0
    ELSE LET n == CHOOSE x \in S : TRUE
         IN results[n].size + SumOfSizes(results, S \ {n})

\* the statement returns sum(size)::bigint, or fails when a node's call raised
RelationSizeReturn ==
    /\ relation_size_result.status = "none"
    /\ \A n \in SizeNodes : stat_pc[n] = "done"
    /\ relation_size_result' =
           IF \E n \in SizeNodes : stat_result[n].status = "error"
               THEN [status |-> "error", size |-> 0]
               ELSE [status |-> "ok", size |-> SumOfSizes(stat_result, SizeNodes)]
    /\ UNCHANGED <<relfile, stat_pc, stat_result, enoent, core_vars, quota_vars, hook_vars,
                   wait_vars>>

NextSize ==
    \/ relation_size
    \/ \E n \in SizeNodes : UnlinkFile(n)
    \/ \E n \in SizeNodes : relation_size_local(n)
    \/ RelationSizeReturn

SpecSize == InitSize /\ [][NextSize]_vars

(***************************************************************************)
(* The relation cache with its primary/auxiliary links on one segment, and *)
(* diskquota.check_relation_cache().  An entry is a row of                 *)
(* diskquota._relation_cache_detail: relid, primary_table_oid, relnode and *)
(* the array auxrel_oid.  Relations are created and dropped in one         *)
(* database; a relation's relfilenode is its own.                          *)
(***************************************************************************)
\* the relations: a table without auxiliary relations, and a table with two
CacheTable == FirstNormalObjectId
CacheParent == FirstNormalObjectId + 1
CacheRelids == FirstNormalObjectId .. (FirstNormalObjectId + 3)

\* the auxiliary -> primary relationship of the catalog (toast parent, index
\* parent, AO block-directory parent)
CachePrimaryOf(relid) == IF relid > CacheParent THEN CacheParent ELSE relid

\* the relfilenode the catalog holds for a relation
RelNodeOf(relid) == relid

\* the elements of an array
ArrayRange(a) == {a[i] : i \in 1..Len(a)}

\* the entry of relid in the cache, when there is one
CacheEntryOf(cache, relid) == CHOOSE e \in cache : e.relid = relid

\* a fresh entry of relid as fetched from the catalog
FreshEntry(relid) ==
    [relid |-> relid, primary_table_oid |-> CachePrimaryOf(relid),
     relnode |-> RelNodeOf(relid), auxrel_oid |-> <<>>]

\* insert or update the entry of relid, keeping the auxiliary array it has
PutEntry(cache, relid) ==
    IF \E e \in cache : e.relid = relid THEN cache ELSE cache \cup {FreshEntry(relid)}

\* register aux in the auxiliary array of the entry of relid
RegisterAux(cache, relid, aux) ==
    LET p == CacheEntryOf(cache, relid) IN
    IF aux \in ArrayRange(p.auxrel_oid) THEN cache
    ELSE (cache \ {p}) \cup {[p EXCEPT !.auxrel_oid = Append(@, aux)]}

\* update(relation_id) with the links: the entry is inserted or updated, an
\* auxiliary relation is registered in the auxiliary array of its primary
update_relation_cache_detail(cache, relid) ==
    IF CachePrimaryOf(relid) = relid THEN PutEntry(cache, relid)
    ELSE RegisterAux(PutEntry(PutEntry(cache, relid), CachePrimaryOf(relid)),
                     CachePrimaryOf(relid), relid)

\* evict(relfilenode_id): the cache is scanned for the matching entries
evict_by_relfilenode(cache, relfilenode) == {e \in cache : e.relnode # relfilenode}

\* the object-access hook after a relation is created: the relation has its
\* row, the cache is updated.  An auxiliary relation is created for a
\* primary that exists; a dropped relation's oid is free again once its file
\* is unlinked.
CreateRelation(relid) ==
    /\ relid \notin pg_class
    /\ RelNodeOf(relid) \notin pending_unlink
    /\ CachePrimaryOf(relid) \in pg_class \cup {relid}
    /\ pg_class' = pg_class \cup {relid}
    /\ relation_cache_detail' = update_relation_cache_detail(relation_cache_detail, relid)
    /\ swept' = FALSE
    /\ UNCHANGED <<pending_unlink, core_vars, hook_vars, wait_vars, size_vars,
                   mailbox_vars, gate_vars, dbset_vars, chain_vars>>

\* DROP of a relation commits: its row and the rows of its auxiliary
\* relations are gone, their files wait for the unlink
DropRelation(relid) ==
    /\ relid \in pg_class
    /\ LET gone == {r \in pg_class : r = relid \/ CachePrimaryOf(r) = relid} IN
        /\ pg_class' = pg_class \ gone
        /\ pending_unlink' = pending_unlink \cup {RelNodeOf(r) : r \in gone}
    /\ swept' = FALSE
    /\ UNCHANGED <<relation_cache_detail, core_vars, hook_vars, wait_vars, size_vars,
                   mailbox_vars, gate_vars, dbset_vars, chain_vars>>

\* active_table_hook_smgrunlink for any file the storage manager unlinks, the
\* file of a dropped relation or the old file of a relation that lives on:
\* remove_cache_entry(InvalidOid, rnode.node.relNode)
UnlinkEvicts(relfilenode) ==
    /\ pending_unlink' = pending_unlink \ {relfilenode}
    /\ relation_cache_detail' = evict_by_relfilenode(relation_cache_detail, relfilenode)
    /\ swept' = FALSE
    /\ UNCHANGED <<pg_class, core_vars, hook_vars, wait_vars, size_vars,
                   mailbox_vars, gate_vars, dbset_vars, chain_vars>>

\* evict(relation_id): the entry of relid is removed, whatever refers to it
EvictRelation(relid) ==
    /\ relation_cache_detail' = {e \in relation_cache_detail : e.relid # relid}
    /\ swept' = FALSE
    /\ UNCHANGED <<pg_class, pending_unlink, core_vars, hook_vars, wait_vars, size_vars,
                   mailbox_vars, gate_vars, dbset_vars, chain_vars>>

\* sweep_committed at the start of an epoch: the entries whose catalog row no
\* longer exists are removed
sweep_committed ==
    /\ relation_cache_detail' = SweepCommitted(relation_cache_detail, pg_class)
    /\ swept' = TRUE
    /\ UNCHANGED <<pg_class, pending_unlink, core_vars, hook_vars, wait_vars, size_vars,
                   mailbox_vars, gate_vars, dbset_vars, chain_vars>>

\* the elements of a set of oids in ascending order
RECURSIVE SortedArray(_)
SortedArray(S) ==
    IF S = {} THEN <<>>
    ELSE LET least == CHOOSE x \in S : \A y \in S : x <= y
         IN <<least>> \o SortedArray(S \ {least})

\* array_agg(distinct relid) over the rows with relid != primary_table_oid:
\* NULL when there is no such row
ArrayAggAuxRelids(cache) ==
    LET rows == {e \in cache : e.relid # e.primary_table_oid} IN
    [isnull |-> rows = {}, array |-> SortedArray({e.relid : e \in rows})]

\* select distinct auxrel_oid over the rows with relid = primary_table_oid
DistinctAuxArrays(cache) ==
    {e.auxrel_oid : e \in {x \in cache : x.relid = x.primary_table_oid}}

\* diskquota.check_relation_cache(): the scalar subquery of t2 raises when it
\* returns more than one row and is NULL when it returns none; t1 = t2 is NULL
\* when one side is
check_relation_cache(cache) ==
    LET t1 == ArrayAggAuxRelids(cache)
        rows == DistinctAuxArrays(cache)
    IN  IF Cardinality(rows) > 1 THEN "error"
        ELSE IF rows = {} \/ t1.isnull THEN "null"
        ELSE IF t1.array = (CHOOSE a \in rows : TRUE) THEN "t" ELSE "f"

NextRelationCache ==
    \/ \E relid \in CacheRelids : CreateRelation(relid)
    \/ \E relid \in CacheRelids : DropRelation(relid)
    \/ \E relfilenode \in {RelNodeOf(r) : r \in CacheRelids} : UnlinkEvicts(relfilenode)
    \/ \E relid \in CacheRelids : EvictRelation(relid)
    \/ sweep_committed

SpecRelationCache == Init /\ [][NextRelationCache]_vars

(***************************************************************************)
(* The launcher's mailbox (ExtensionDDLMessage).  A requester takes        *)
(* extension_ddl_lock, writes its command with result ERR_PENDING, signals *)
(* the launcher and waits, with a timeout, for another result; the         *)
(* launcher copies the message, carries the command out and writes the     *)
(* result.  Every access to the mailbox is one critical section under      *)
(* extension_ddl_message_lock, modelled as one step.                       *)
(***************************************************************************)
\* what the operations on the mailbox leave alone
mailbox_frame == <<core_vars, hook_vars, wait_vars, size_vars, cache_vars, gate_vars,
                   dbset_vars, chain_vars>>

\* LWLockAcquire(extension_ddl_lock, LW_EXCLUSIVE) in requester p
RequesterLock(p) ==
    /\ req_pc[p] = "idle"
    /\ extension_ddl_lock = 0
    /\ extension_ddl_lock' = p
    /\ req_pc' = [req_pc EXCEPT ![p] = "locked"]
    /\ UNCHANGED <<extension_ddl_message, got_sigusr1, launcher_pc,
                   local_extension_ddl_message, req_cmd, req_read, mailbox_frame>>

\* requester p writes (req_pid, cmd, dbid, result = ERR_PENDING) under the
\* message lock and signals the launcher
RequesterWrite(p, cmd) ==
    /\ req_pc[p] = "locked"
    /\ extension_ddl_message' = [req_pid |-> p, cmd |-> cmd, dbid |-> p,
                                 result |-> ERR_PENDING, answers |-> 0]
    /\ got_sigusr1' = TRUE
    /\ req_cmd' = [req_cmd EXCEPT ![p] = cmd]
    /\ req_pc' = [req_pc EXCEPT ![p] = "waiting"]
    /\ UNCHANGED <<extension_ddl_lock, launcher_pc, local_extension_ddl_message,
                   req_read, mailbox_frame>>

\* the result has become non-PENDING: requester p reads it and releases
\* extension_ddl_lock
RequesterRead(p) ==
    /\ req_pc[p] = "waiting"
    /\ extension_ddl_message.result # ERR_PENDING
    /\ req_read' = [req_read EXCEPT ![p] =
                       [result |-> extension_ddl_message.result,
                        answers |-> extension_ddl_message.answers]]
    /\ extension_ddl_lock' = 0
    /\ req_pc' = [req_pc EXCEPT ![p] = "done"]
    /\ UNCHANGED <<extension_ddl_message, got_sigusr1, launcher_pc,
                   local_extension_ddl_message, req_cmd, mailbox_frame>>

\* the wait of requester p times out with the result still ERR_PENDING: the
\* requester fails and releases extension_ddl_lock
RequesterTimeout(p) ==
    /\ req_pc[p] = "waiting"
    /\ extension_ddl_message.result = ERR_PENDING
    /\ req_read' = [req_read EXCEPT ![p] = [result |-> ERR_PENDING, answers |-> 0]]
    /\ extension_ddl_lock' = 0
    /\ req_pc' = [req_pc EXCEPT ![p] = "done"]
    /\ UNCHANGED <<extension_ddl_message, got_sigusr1, launcher_pc,
                   local_extension_ddl_message, req_cmd, mailbox_frame>>

\* the statement of requester p is over
RequesterDone(p) ==
    /\ req_pc[p] = "done"
    /\ req_pc' = [req_pc EXCEPT ![p] = "idle"]
    /\ req_cmd' = [req_cmd EXCEPT ![p] = 0]
    /\ req_read' = [req_read EXCEPT ![p] = [result |-> ERR_PENDING, answers |-> 0]]
    /\ UNCHANGED <<extension_ddl_lock, extension_ddl_message, got_sigusr1, launcher_pc,
                   local_extension_ddl_message, mailbox_frame>>

\* the launcher reacts to the signal: it copies the message
LauncherCopy ==
    /\ launcher_pc = "idle"
    /\ got_sigusr1
    /\ got_sigusr1' = FALSE
    /\ local_extension_ddl_message' = extension_ddl_message
    /\ launcher_pc' = "processing"
    /\ UNCHANGED <<extension_ddl_lock, extension_ddl_message, req_pc, req_cmd,
                   req_read, mailbox_frame>>

\* the launcher has carried out the command of its copy (CMD_CREATE_EXTENSION
\* replies ERR_EXCEED when MonitoredDbSet is full) and writes the result
LauncherReply(code) ==
    /\ launcher_pc = "processing"
    /\ code = ERR_EXCEED => local_extension_ddl_message.cmd = CMD_CREATE_EXTENSION
    /\ extension_ddl_message' =
           [extension_ddl_message EXCEPT
               !.result = code,
               !.answers = local_extension_ddl_message.req_pid]
    /\ launcher_pc' = "idle"
    /\ UNCHANGED <<extension_ddl_lock, got_sigusr1, local_extension_ddl_message,
                   req_pc, req_cmd, req_read, mailbox_frame>>

NextMailbox ==
    \/ \E p \in Requesters : RequesterLock(p)
    \/ \E p \in Requesters, cmd \in {CMD_CREATE_EXTENSION, CMD_DROP_EXTENSION} :
           RequesterWrite(p, cmd)
    \/ \E p \in Requesters : RequesterRead(p)
    \/ \E p \in Requesters : RequesterTimeout(p)
    \/ \E p \in Requesters : RequesterDone(p)
    \/ LauncherCopy
    \/ \E code \in {ERR_OK, ERR_EXCEED} : LauncherReply(code)

SpecMailbox == Init /\ [][NextMailbox]_vars

(***************************************************************************)
(* The quota of one target, the evaluator, the blocklist and the           *)
(* enforcement gate, with pause and resume.  One refresh of the worker     *)
(* computes the sizes and evaluates them.                                  *)
(***************************************************************************)
\* what the operations on the quota leave alone
gate_frame == <<core_vars, hook_vars, wait_vars, size_vars, cache_vars, mailbox_vars,
                dbset_vars, chain_vars>>

\* the aggregated size of the target's relations
RECURSIVE TargetSize(_, _)
TargetSize(sizes, rels) ==
    IF rels = {} THEN 0
    ELSE LET r == CHOOSE x \in rels : TRUE
         IN sizes[r] + TargetSize(sizes, rels \ {r})

\* a plausible slip: a target that has reached its limit is over it
TargetIsOverMeets(total, limit) ==
    limit # NoLimit /\ total >= limit

\* the evaluator's verdict on a target: a target is over when the aggregated
\* size of its relations strictly exceeds its limit, limit 0 included; -1 is
\* no limit
TargetIsOver(total, limit) ==
    limit # NoLimit /\ total > limit

\* the desired blocklist: a target that is over is exploded into its member
\* relations
DesiredBlocklist(sizes, limit) ==
    IF TargetIsOver(TargetSize(sizes, QuotaRels), limit) THEN QuotaRels ELSE {}

\* a management operation sets the limit of the target
set_schema_quota(limit) ==
    /\ quota_limit' = limit
    /\ UNCHANGED <<diskquota_paused, rel_size, epoch_size, epoch_limit, black_map,
                   write_result, gate_frame>>

\* diskquota.pause()
diskquota_pause ==
    /\ diskquota_paused' = TRUE
    /\ UNCHANGED <<quota_limit, rel_size, epoch_size, epoch_limit, black_map,
                   write_result, gate_frame>>

\* diskquota.resume()
diskquota_resume ==
    /\ diskquota_paused' = FALSE
    /\ UNCHANGED <<quota_limit, rel_size, epoch_size, epoch_limit, black_map,
                   write_result, gate_frame>>

\* quota_check_common(reloid): the gate allows when the database is paused,
\* whatever the blocklist holds, and otherwise when the relation is not listed
GateAllows(paused, blocklist, reloid) == paused \/ reloid \notin blocklist

\* a backend opens relation reloid for a write that leaves it with newsize
WriteRelation(reloid, newsize) ==
    /\ IF GateAllows(diskquota_paused, black_map, reloid)
          THEN /\ rel_size' = [rel_size EXCEPT ![reloid] = newsize]
               /\ write_result' = [relid |-> reloid, outcome |-> "allowed",
                                   paused |-> diskquota_paused]
          ELSE /\ UNCHANGED rel_size
               /\ write_result' = [relid |-> reloid, outcome |-> "rejected",
                                   paused |-> diskquota_paused]
    /\ UNCHANGED <<diskquota_paused, quota_limit, epoch_size, epoch_limit, black_map,
                   gate_frame>>

\* one turn of the worker's loop: the refresh reads the current sizes and the
\* configured limit and replaces the blocklist by the desired one.  For a
\* paused database the specification has two readings, and a turn of either
\* is a turn here: the refresh is skipped ("if not paused, run the fetch and
\* the evaluator") or it runs ("the blocklist continues to be updated").
WorkerEpochRefresh(refreshes) ==
    /\ ~diskquota_paused => refreshes
    /\ IF refreshes
          THEN /\ epoch_size' = rel_size
               /\ epoch_limit' = quota_limit
               /\ black_map' = DesiredBlocklist(rel_size, quota_limit)
          ELSE UNCHANGED <<epoch_size, epoch_limit, black_map>>
    /\ write_result' = [relid |-> 0, outcome |-> "none", paused |-> diskquota_paused]
    /\ UNCHANGED <<diskquota_paused, quota_limit, rel_size, gate_frame>>

NextQuota ==
    \/ \E limit \in QuotaLimits : set_schema_quota(limit)
    \/ diskquota_pause
    \/ diskquota_resume
    \/ \E reloid \in QuotaRels, newsize \in Sizes : WriteRelation(reloid, newsize)
    \/ \E refreshes \in BOOLEAN : WorkerEpochRefresh(refreshes)

SpecQuota == Init /\ [][NextQuota]_vars

(***************************************************************************)
(* Two FETCH_ACTIVE_OID calls on one segment at the same time, and the     *)
(* probes of the segment's backends.                                       *)
(***************************************************************************)
\* the two backends that run get_active_tables_oid on the segment
Drainers == {1, 2}

\* the segment's shared memory after startup, the two backends idle
InitDrains ==
    /\ ShmemIdle
    /\ pc = [p \in Drainers |-> "idle"]
    /\ node = [p \in Drainers |-> "primary"]
    /\ MyDatabaseId = [p \in Drainers |-> NoDb]
    /\ local_active_table_file_map = [p \in Drainers |-> {}]
    /\ local_active_table_stats_map = [p \in Drainers |-> {}]
    /\ last_ret = Returned("none", "primary", "none", {}, FALSE)
    /\ EpochIdle
    /\ NoCall
    /\ ExtIdle

\* the probes of the segment, and the steps of the two calls the coordinator
\* dispatched for a monitored database
NextDrains ==
    \/ \E e \in FileEntries : report_active_table_helper("primary", e)
    \/ \E p \in Drainers, db \in MonitoredDbs :
           diskquota_fetch_table_stat_oid(p, "primary", db, "execute")
    \/ \E p \in Drainers : DrainLockAcquire(p)
    \/ \E p \in Drainers : DrainRelease(p)
    \/ \E p \in Drainers : ResolveLoop(p)
    \/ \E p \in Drainers : PutBackLockAcquire(p)
    \/ \E p \in Drainers : PutBackRelease(p)

SpecDrains == InitDrains /\ [][NextDrains]_vars

(***************************************************************************)
(* The set of monitored databases: the launcher's writes under             *)
(* monitoring_dbid_cache_lock and the membership test of the probes.       *)
(***************************************************************************)
\* the capacity of monitoring_dbid_cache
MAX_NUM_MONITORED_DB == 10

\* what the launcher's operations and the probes leave alone
dbset_frame == <<pc, node, MyDatabaseId, local_active_table_file_map,
                 local_active_table_stats_map, epoch_vars, call_vars, hook_vars,
                 wait_vars, size_vars, cache_vars, mailbox_vars, gate_vars, chain_vars>>

\* the launcher starts (op = "add") or stops (op = "remove") the worker of a
\* database: it takes the lock in exclusive mode; a database is added while
\* the set has room
LauncherDbidLock(op, dbid) ==
    /\ launcher_dbid_op = NoDbidOp
    /\ ~monitoring_dbid_cache_lock.exclusive
    /\ monitoring_dbid_cache_lock.shared = {}
    /\ \/ /\ op = "add"
          /\ dbid \notin monitoring_dbid_cache
          /\ Cardinality(monitoring_dbid_cache) < MAX_NUM_MONITORED_DB
       \/ /\ op = "remove"
          /\ dbid \in monitoring_dbid_cache
    /\ monitoring_dbid_cache_lock' = [monitoring_dbid_cache_lock EXCEPT !.exclusive = TRUE]
    /\ launcher_dbid_op' = [op |-> op, dbid |-> dbid]
    /\ UNCHANGED <<active_tables_map, active_tables_nelem, monitoring_dbid_cache,
                   active_table_lock, last_ret, dbid_read, probe_pc, dbset_frame>>

\* the launcher's hash_search (HASH_ENTER or HASH_REMOVE) on the set, and
\* LWLockRelease
LauncherDbidWrite ==
    /\ launcher_dbid_op # NoDbidOp
    /\ monitoring_dbid_cache' =
           IF launcher_dbid_op.op = "add"
               THEN monitoring_dbid_cache \cup {launcher_dbid_op.dbid}
               ELSE monitoring_dbid_cache \ {launcher_dbid_op.dbid}
    /\ monitoring_dbid_cache_lock' = [monitoring_dbid_cache_lock EXCEPT !.exclusive = FALSE]
    /\ launcher_dbid_op' = NoDbidOp
    /\ UNCHANGED <<active_tables_map, active_tables_nelem, active_table_lock, last_ret,
                   dbid_read, probe_pc, dbset_frame>>

\* hash_search(monitoring_dbid_cache, &dbid, HASH_FIND, &found) without the
\* lock: the answers it may give.  While the launcher enters or removes a
\* key, this one or another, the read races with the write on the buckets
\* of the table and finds the entry or not; else it answers whether the
\* database is in the set.
HashFindUnlocked(cache, writing, dbid) ==
    IF writing.op # "none" THEN BOOLEAN ELSE {dbid \in cache}

\* a plausible slip: the probe takes the lock in read mode for its test, as
\* the lock table of the specification has it
ProbeHoldsDbidLockShared == "shared"

\* the mode in which the probe holds monitoring_dbid_cache_lock at its
\* membership test: it has acquired no lock yet
ProbeHoldsDbidLock == "none"

\* report_active_table_helper in backend b of node n next to the launcher, up
\* to LWLockAcquire: the role test, then the membership test with what the
\* probe held and whose write was going on; the helper returns, or goes on to
\* take active_table_lock.  A test under the lock in read mode would wait
\* for the launcher to release it.
report_active_table_helper_unlocked(b, n, e) ==
    /\ probe_pc[b].pc = "idle"
    /\ ProbeHoldsDbidLock = "shared" => ~monitoring_dbid_cache_lock.exclusive
    /\ IF IS_QUERY_DISPATCHER(n) \/ IsRoleMirror(n)
          THEN /\ last_ret' = Returned("probe", n, "skipped", {}, FALSE)
               /\ UNCHANGED <<dbid_read, probe_pc>>
          ELSE \E found \in HashFindUnlocked(monitoring_dbid_cache, launcher_dbid_op,
                                             e.dbid) :
               /\ dbid_read' = [op |-> "test", dbid |-> e.dbid, found |-> found,
                                member |-> e.dbid \in monitoring_dbid_cache,
                                held |-> ProbeHoldsDbidLock,
                                writing |-> launcher_dbid_op.dbid]
               /\ IF ~found
                     THEN /\ last_ret' = Returned("probe", n, "skipped", {}, FALSE)
                          /\ UNCHANGED probe_pc
                     ELSE /\ probe_pc' = [probe_pc EXCEPT ![b] = [pc |-> "lock", e |-> e]]
                          /\ UNCHANGED last_ret
    /\ UNCHANGED <<active_tables_map, active_tables_nelem, active_table_lock,
                   monitoring_dbid_cache, monitoring_dbid_cache_lock, launcher_dbid_op,
                   dbset_frame>>

\* LWLockAcquire(active_table_lock, LW_EXCLUSIVE) of the helper in backend b
\* of the primary: the backend waits until the lock is free
ProbeLockAcquire(b) ==
    /\ probe_pc[b].pc = "lock"
    /\ active_table_lock["primary"] = 0
    /\ active_table_lock' = [active_table_lock EXCEPT !["primary"] = b]
    /\ probe_pc' = [probe_pc EXCEPT ![b].pc = "enter"]
    /\ UNCHANGED <<active_tables_map, active_tables_nelem, monitoring_dbid_cache,
                   monitoring_dbid_cache_lock, launcher_dbid_op, dbid_read, last_ret,
                   dbset_frame>>

\* hash_search(HASH_ENTER_NULL) of the helper under the lock, the warning,
\* LWLockRelease and the return
ProbeEnterRelease(b) ==
    /\ probe_pc[b].pc = "enter"
    /\ \E spare \in BOOLEAN :
        LET r == ProbeEnter(active_tables_map["primary"], probe_pc[b].e,
                            active_tables_nelem["primary"], spare) IN
        /\ active_tables_map' = [active_tables_map EXCEPT !["primary"] = r.map]
        /\ active_tables_nelem' = [active_tables_nelem EXCEPT !["primary"] = r.nelem]
        /\ active_table_lock' = [active_table_lock EXCEPT !["primary"] = r.lock]
        /\ last_ret' = Returned("probe", "primary", r.outcome, {}, FALSE)
    /\ probe_pc' = [probe_pc EXCEPT ![b] = NoProbe]
    /\ UNCHANGED <<monitoring_dbid_cache, monitoring_dbid_cache_lock, launcher_dbid_op,
                   dbid_read, dbset_frame>>

\* the files of the probes of SpecMonitored: one file in each database
DbsetEntries == {e \in FileEntries : e.relfilenode = CHOOSE f \in RelFileNodes : TRUE}

NextMonitored ==
    \/ \E op \in {"add", "remove"}, dbid \in DbIds : LauncherDbidLock(op, dbid)
    \/ LauncherDbidWrite
    \/ \E b \in Probers, n \in Nodes, e \in DbsetEntries :
           report_active_table_helper_unlocked(b, n, e)
    \/ \E b \in Probers : ProbeLockAcquire(b)
    \/ \E b \in Probers : ProbeEnterRelease(b)

SpecMonitored == Init /\ [][NextMonitored]_vars

(***************************************************************************)
(* One FETCH_ACTIVE_OID call on a segment whose map holds what the probes  *)
(* left, with no probe while the call runs.                                *)
(***************************************************************************)
\* the maps the probes can have left on a segment: entries of monitored
\* databases, as many as the table can come to hold
DrainableMaps ==
    {m \in SUBSET {e \in FileEntries : e.dbid \in MonitoredDbs} :
        \E k \in TableSizes : Cardinality(m) <= k}

\* the calls of SpecOneCall: the database of the backend and the map it finds
OneCallArgs ==
    {[fn |-> "get_active_tables_oid", db |-> d, map |-> m] :
        d \in DbIds, m \in DrainableMaps}

InitOneCall ==
    /\ active_tables_map \in
           {[n \in Nodes |-> IF n = "primary" THEN m ELSE {}] : m \in DrainableMaps}
    /\ \E k \in TableSizes :
          /\ Cardinality(active_tables_map["primary"]) <= k
          /\ active_tables_nelem =
                 [n \in Nodes |-> IF n = "primary" THEN k
                                  ELSE diskquota_max_active_tables]
    /\ monitoring_dbid_cache = MonitoredDbs
    /\ active_table_lock = [n \in Nodes |-> 0]
    /\ BackendsIdle
    /\ last_ret = Returned("none", "primary", "none", {}, FALSE)
    /\ EpochIdle
    /\ call_args \in {x \in OneCallArgs : x.map = active_tables_map["primary"]}
    /\ call_result = NoResult
    /\ ExtIdle

\* the one call: the coordinator's query runs the function on the segment, in
\* a backend of the worker's database
FetchActiveOidOnce(p) ==
    /\ call_args.fn = "get_active_tables_oid"
    /\ last_ret.op = "none"
    /\ \A q \in Procs : pc[q] = "idle"
    /\ diskquota_fetch_table_stat_oid(p, "primary", call_args.db, "execute")

NextOneCall ==
    \/ \E p \in Procs : FetchActiveOidOnce(p)
    \/ \E p \in Procs : DrainLockAcquire(p)
    \/ \E p \in Procs : DrainRelease(p)
    \/ \E p \in Procs : ResolveLoop(p)
    \/ \E p \in Procs : PutBackLockAcquire(p)
    \/ \E p \in Procs : PutBackRelease(p)

SpecOneCall == InitOneCall /\ [][NextOneCall]_vars

(***************************************************************************)
(* The installation of the five hooks and the events of the host, with or  *)
(* without a listener installed before the extension.                      *)
(***************************************************************************)
\* what the installation and the events leave alone
chain_frame == <<monitoring_dbid_cache, backend_vars, epoch_vars, call_vars, wait_vars,
                 size_vars, cache_vars, mailbox_vars, gate_vars, dbset_vars>>

\* the hooks on which another extension has installed a listener before the
\* library is loaded: none, one of the five, or all of them
ChainListeners == {{}, HookNames} \cup {{h} : h \in HookNames}

\* before the library is loaded: each hook variable of the host is NULL or
\* points to the listener of another extension; the static prev_ variables
\* are NULL
InitChain ==
    /\ ShmemIdle
    /\ BackendsIdle
    /\ last_ret = Returned("none", "primary", "none", {}, FALSE)
    /\ EpochIdle
    /\ NoCall
    /\ HooksIdle /\ WaitIdle /\ SizeIdle
    /\ CacheIdle /\ MailboxIdle /\ GateIdle /\ DbsetIdle
    /\ \E listeners \in ChainListeners :
           file_hook = [h \in HookNames |-> IF h \in listeners THEN "listener" ELSE "NULL"]
    /\ prev_hook = [h \in HookNames |-> "NULL"]
    /\ hook_calls = [event |-> NoEvent, via |-> "NULL", calls |-> <<>>]

\* init_active_table_hook, called once when the library is loaded: each hook
\* variable is saved, then set to the extension's function
init_active_table_hook ==
    /\ \A h \in HookNames : file_hook[h] # "diskquota"
    /\ prev_hook' = file_hook
    /\ file_hook' = [h \in HookNames |-> "diskquota"]
    /\ UNCHANGED <<hook_calls, active_tables_map, active_tables_nelem, active_table_lock,
                   last_ret, relation_cache, chain_frame>>

\* the arguments the host passes to a file hook and to the object-access hook
FileEventArgs(hook, e) == [NoEvent EXCEPT !.hook = hook, !.rnode = e]
ObjectEventArgs(access, classId, objectId, subId) ==
    [NoEvent EXCEPT !.hook = "object_access", !.access = access, !.classId = classId,
                    !.objectId = objectId, !.subId = subId]

\* a plausible slip: the previous hook is called after the own processing
HookCallsOwnFirst(prev, args) ==
    <<[callee |-> "diskquota", args |-> args]>>
        \o (IF prev # "NULL" THEN <<[callee |-> prev, args |-> args]>> ELSE <<>>)

\* the calls one of the extension's hook functions makes: the previous hook
\* with the arguments it was given, when there is one, then its own
\* processing
HookCalls(prev, args) ==
    (IF prev # "NULL" THEN <<[callee |-> prev, args |-> args]>> ELSE <<>>)
        \o <<[callee |-> "diskquota", args |-> args]>>

\* the calls an event of the host leads to: none when the hook variable is
\* NULL, the listener when it points to it, else those of the extension's
\* function
EventCalls(hook, args) ==
    [event |-> args, via |-> file_hook[hook],
     calls |-> IF file_hook[hook] = "NULL" THEN <<>>
               ELSE IF file_hook[hook] = "listener"
                   THEN <<[callee |-> "listener", args |-> args]>>
               ELSE HookCalls(prev_hook[hook], args)]

\* what an event of the host leaves alone besides the hook variables
event_frame == <<monitoring_dbid_cache, backend_vars, epoch_vars, call_vars, wait_vars,
                 size_vars, cache_vars, mailbox_vars, gate_vars,
                 monitoring_dbid_cache_lock, launcher_dbid_op, dbid_read>>

\* the host creates, extends, truncates or unlinks the file e in backend b
\* of node n and calls the hook. With the extension's function installed,
\* the previous hook is called, then the own processing starts: for unlink
\* the eviction from the relation cache; for the others
\* report_active_table_helper, which returns early or goes on to
\* LWLockAcquire, where the backend may wait (ProbeLockAcquire,
\* ProbeEnterRelease)
HostFileEvent(b, hook, n, e) ==
    /\ probe_pc[b].pc = "idle"
    /\ hook_calls' = EventCalls(hook, FileEventArgs(hook, e))
    /\ IF file_hook[hook] = "diskquota"
          THEN /\ IF ~HookReports(hook)
                     THEN /\ last_ret' = Returned(hook, n, "none", {}, FALSE)
                          /\ UNCHANGED probe_pc
                     ELSE IF ProbeSkips(n, e.dbid)
                         THEN /\ last_ret' = Returned("probe", n, "skipped", {}, FALSE)
                              /\ UNCHANGED probe_pc
                         ELSE /\ probe_pc' =
                                     [probe_pc EXCEPT ![b] = [pc |-> "lock", e |-> e]]
                              /\ UNCHANGED last_ret
               /\ relation_cache' =
                      IF hook = "smgrunlink"
                          THEN [relation_cache EXCEPT
                                   ![n] = remove_cache_entry(@, InvalidOid, e.relfilenode)]
                          ELSE relation_cache
          ELSE UNCHANGED <<last_ret, relation_cache, probe_pc>>
    /\ UNCHANGED <<active_tables_map, active_tables_nelem, active_table_lock,
                   file_hook, prev_hook, event_frame>>

\* the host reports an access to an object in backend b of node n connected
\* to database db and calls the hook: with the extension's function
\* installed, the previous hook is called and then the filters run
HostObjectAccess(b, n, db, access, classId, objectId, subId) ==
    /\ probe_pc[b].pc = "idle"
    /\ hook_calls' = EventCalls("object_access",
                                ObjectEventArgs(access, classId, objectId, subId))
    /\ IF file_hook["object_access"] = "diskquota"
          THEN IF QuotaStmtReturns(access, classId, objectId, subId)
                      \/ RelationCacheSkips(n, db)
                  THEN /\ last_ret' = Returned("object_access", n, "skipped", {}, FALSE)
                       /\ UNCHANGED relation_cache
                  ELSE /\ last_ret' = Returned("object_access", n, "updated",
                                               {objectId}, FALSE)
                       /\ relation_cache' = [relation_cache EXCEPT
                              ![n] = update_relation_cache(@, objectId, RelNodeOf(objectId))]
          ELSE UNCHANGED <<last_ret, relation_cache>>
    /\ UNCHANGED <<active_tables_map, active_tables_nelem, active_table_lock, file_hook,
                   prev_hook, probe_pc, event_frame>>

\* the files and the objects of the events: one file in each database, a
\* catalog object and a user relation
ChainEntries == {e \in FileEntries : e.relfilenode = CHOOSE f \in RelFileNodes : TRUE}
ChainObjectIds == {FirstNormalObjectId - 1, FirstNormalObjectId}
\* the file a second backend of the primary extends meanwhile
ChainOtherEntries == {e \in ChainEntries : e.dbid = WorkerDb}

NextChain ==
    \/ init_active_table_hook
    \/ \E hook \in FileHooks, n \in Nodes, e \in ChainEntries :
           HostFileEvent(ProbeBackend, hook, n, e)
    \/ \E e \in ChainOtherEntries :
           HostFileEvent(ProbeBackend + 1, "smgrextend", "primary", e)
    \/ \E b \in Probers : ProbeLockAcquire(b)
    \/ \E b \in Probers : ProbeEnterRelease(b)
    \/ \E n \in Nodes, db \in DbIds, access \in AccessTypes, classId \in ClassIds,
          objectId \in ChainObjectIds, subId \in SubIds :
           HostObjectAccess(ProbeBackend, n, db, access, classId, objectId, subId)

SpecChain == InitChain /\ [][NextChain]_vars

(***************************************************************************)
(* Properties of the shared active-table map (Spec).                       *)
(***************************************************************************)
\* C1: on every node, in every reachable state, the shared active-table map
\* holds at most diskquota_max_active_tables entries, whatever the probes, the
\* drains and the put-back of unresolved entries did.
C1_CapacityInvariant ==
    \A n \in Nodes : Cardinality(active_tables_map[n]) <= diskquota_max_active_tables

\* an entry is held while it is in the shared map or in the local map of a
\* running FETCH_ACTIVE_OID call
Held(map, locals, e) == e \in map["primary"] \/ \E p \in Procs : e \in locals[p]

\* C2: an entry recorded in the shared map is never discarded: after every
\* step it is still in the shared map or in the local map of the drain that
\* removed it, unless that drain resolved it in this step and placed its
\* primary relation id in its result.
C2_NoSilentLoss ==
    [][\A e \in FileEntries :
          Held(active_tables_map, local_active_table_file_map, e)
          => \/ Held(active_tables_map', local_active_table_file_map', e)
             \/ \E p \in Procs :
                   /\ pc[p] = "oid_resolve"
                   /\ e \in local_active_table_file_map[p]
                   /\ get_primary_table_oid(RelidOf(e)) \in
                          (local_active_table_stats_map'[p] \cup last_ret'.oids)]_vars

\* C9: a probe on the coordinator or on a mirror, or for a database that is not
\* monitored, changes neither the map nor the lock, and it never waits for the
\* lock; the maps of the coordinator and of the mirror stay empty and the map
\* of the primary holds entries of monitored databases only.
C9_ProbeShortCircuit ==
    /\ [](/\ active_tables_map["dispatcher"] = {}
          /\ active_tables_map["mirror"] = {}
          /\ active_table_lock["dispatcher"] = 0
          /\ active_table_lock["mirror"] = 0
          /\ \A e \in active_tables_map["primary"] : e.dbid \in monitoring_dbid_cache
          /\ \A n \in Nodes, e \in FileEntries :
                (n \in {"dispatcher", "mirror"} \/ e.dbid \notin monitoring_dbid_cache)
                => ENABLED report_active_table_helper(n, e))
    /\ [][\A n \in Nodes, e \in FileEntries :
            (/\ n \in {"dispatcher", "mirror"} \/ e.dbid \notin monitoring_dbid_cache
             /\ report_active_table_helper(n, e))
            => UNCHANGED <<active_tables_map, active_table_lock>>]_vars

\* a probe on the coordinator has returned while the map of the primary holds
\* an entry and a drain holds its lock
C9_Witness ==
    /\ last_ret = Returned("probe", "dispatcher", "skipped", {}, FALSE)
    /\ active_tables_map["primary"] # {}
    /\ active_table_lock["primary"] # 0

\* C10: a probe for an entry that is not in the map, made when the map is full,
\* logs the warning, leaves the map as it is, releases the lock and returns
\* without an error.
C10_OverflowHandling ==
    [][\A n \in Nodes, e \in FileEntries :
          (/\ report_active_table_helper(n, e)
           /\ n = "primary" /\ e.dbid \in monitoring_dbid_cache
           /\ e \notin active_tables_map[n]
           /\ Cardinality(active_tables_map[n]) >= diskquota_max_active_tables)
          => /\ active_tables_map' = active_tables_map
             /\ active_table_lock'[n] = 0
             /\ last_ret' = Returned("probe", n, "warning", {}, FALSE)]_vars

\* the sum of the sizes of a set of entries
RECURSIVE SumSizes(_)
SumSizes(entries) ==
    IF entries = {} THEN 0
    ELSE LET x == CHOOSE y \in entries : TRUE
         IN x.tablesize + SumSizes(entries \ {x})

\* C3: a relation that a drain took from a segment's map (so a probe had
\* recorded it and its file resolved) is in the map gp_fetch_active_tables
\* returns no later than the second fetch that returns after that drain; the
\* claim's bound of two epochs after the probe allows no more.
C3_BoundedDetection == \A r \in DOMAIN owed : owed[r] <= 3

\* C4: in the map the size phase builds from results of three fields, for every
\* relation the entries (R, s) are exactly the tuples the segments returned for
\* it, with their sizes, and the entry (R, -1) is their sum; a relation no
\* segment returned has no entry.
C4_AggregationIdentity ==
    (/\ call_args.fn = "pull_active_table_size_from_seg"
     /\ call_result.status = "ok"
     /\ call_args.nfields = 3)
    => \A R \in RelOids :
        LET reported == {x \in UNION {call_args.results[s].rows : s \in Segs} :
                            x.reloid = R}
            perseg == {x \in call_result.rows : x.reloid = R /\ x.segid # -1}
            total == {x \in call_result.rows : x.reloid = R /\ x.segid = -1}
        IN /\ perseg = reported
           /\ reported = {} => total = {}
           /\ reported # {} =>
                 \E t \in total : total = {t} /\ t.tablesize = SumSizes(perseg)

C4_Witness ==
    /\ call_result.status = "ok"
    /\ call_args.nfields = 3
    /\ \E t \in call_result.rows : t.segid = -1 /\ t.tablesize > MaxTableSize
    /\ \E t \in call_result.rows : t.segid = -1 /\ t.tablesize = 0

\* C5: when a fetch raises, every entry it had drained for good from a
\* segment's map is back in that map, or its relation is still recorded in
\* some segment's map (so a later epoch measures it without a new probe).
C5_DrainAtomicity ==
    [][(epoch_phase # "idle" /\ last_ret'.outcome = "error")
        => \A s \in Segs : \A e \in removed[s] :
              \/ e \in active_tables_map'[s]
              \/ \E s2 \in Segs : \E e2 \in active_tables_map'[s2] :
                     get_primary_table_oid(RelidOf(e2)) = get_primary_table_oid(RelidOf(e))]_vars

\* the elements of an oid array the loop of get_active_tables_stats reaches:
\* those before the first NULL element
FirstNull(array) ==
    IF ARR_NULLBITMAP(array)
        THEN CHOOSE i \in 1..Len(array) :
                 array[i] = NullElem /\ \A j \in 1..(i - 1) : array[j] # NullElem
        ELSE Len(array) + 1
Reached(array) == 1..(FirstNull(array) - 1)
\* the last element reached that names the relation of element i
LastOf(array, i) ==
    CHOOSE j \in Reached(array) :
        array[j] = array[i] /\ \A k \in Reached(array) : array[k] = array[i] => k <= j

\* C6: a FETCH_ACTIVE_SIZE call never fails because a size computation
\* raises: it logs one warning for each computation that raised, returns one
\* tuple for every relation it reached - size 0 when the relation's
\* computation raised, the computed size otherwise - and returns the same
\* relations, with the same sizes for the relations that did not raise, as
\* the call in which nothing raises; an array without NULL is reached whole.
C6_ErrorIsolation ==
    (call_args.fn = "get_active_tables_stats" /\ call_result.status # "none")
    => LET a == call_args.array
           quiet == get_active_tables_stats([call_args EXCEPT !.raised = {}])
       IN /\ call_result.status = "TUPLES_OK"
          /\ call_result.warnings = Cardinality(call_args.raised \cap Reached(a))
          /\ {x.reloid : x \in call_result.rows} = {a[i] : i \in Reached(a)}
          /\ {x.reloid : x \in call_result.rows} = {x.reloid : x \in quiet.rows}
          /\ (~ARR_NULLBITMAP(a)) => Reached(a) = 1..Len(a)
          /\ \A i \in Reached(a) :
                LET mine == {x \in call_result.rows : x.reloid = a[i]} IN
                /\ mine = {[reloid |-> a[i], segid |-> call_args.segindex,
                             tablesize |-> IF LastOf(a, i) \in call_args.raised
                                           THEN 0 ELSE call_args.sizes[a[i]]]}
                /\ LastOf(a, i) \notin call_args.raised => mine \subseteq quiet.rows

C6_Witness ==
    /\ call_result.status = "TUPLES_OK"
    /\ call_args.fn = "get_active_tables_stats"
    /\ call_result.warnings = 1
    /\ \E x, y \in call_result.rows :
          /\ x.tablesize = 0 /\ call_args.sizes[x.reloid] > 0
          /\ y.tablesize > 0

\* C7: when the size computation of relation R raised on segment s, the map
\* the fetch returns leaves R's last-known sizes alone: it holds no entry
\* (R, s) made from the failed computation and no total (R, -1) that counts
\* segment s as empty.
C7_LastKnownSize ==
    (epoch_phase = "idle" /\ last_ret.outcome = "map")
    => \A s \in Segs : \A R \in size_failed[s] :
          \A x \in local_table_stats_map : x.reloid = R => x.segid \notin {s, -1}

\* C7 as amended: when the size computation of relation R raised on segment
\* s, the map the fetch returns holds size 0 for (R, s), and R's total
\* (R, -1) is the sum of the sizes the segments reported where it did not
\* raise.
C7_FailedSizeIsZero ==
    [][(PullActiveTableSizeFromSeg /\ last_ret'.outcome = "map")
        => \A s \in Segs : \A R \in size_failed[s] :
              /\ [reloid |-> R, segid |-> s, tablesize |-> 0] \in local_table_stats_map'
              /\ \E t \in local_table_stats_map' :
                    /\ t.reloid = R /\ t.segid = -1
                    /\ t.tablesize = SumSizes(
                          {x \in UNION {pg_results[s2].rows :
                                            s2 \in {u \in Segs : R \notin size_failed[u]}} :
                              x.reloid = R})]_vars

C7_Witness ==
    /\ epoch_phase = "idle"
    /\ last_ret.outcome = "map"
    /\ \E s \in Segs : \E R \in size_failed[s] :
          /\ [reloid |-> R, segid |-> s, tablesize |-> 0] \in local_table_stats_map
          /\ \E t \in local_table_stats_map :
                t.reloid = R /\ t.segid = -1 /\ t.tablesize > 0

\* C8: when a segment's result of the drain phase or of the size phase is not
\* a successful tuple result, the coordinator raises no error and goes on
\* with the results of the other segments: to the size phase, or to the
\* return of the map.
C8_FailureIsTransient ==
    [][((PullActiveList \/ PullActiveTableSizeFromSeg)
            /\ \E s \in Segs : pg_results[s].status = "error")
        => /\ last_ret'.outcome # "error"
           /\ epoch_phase' = "size" \/ last_ret'.outcome = "map"]_vars

\* C8 as amended: when a segment's result of the drain phase or of the size
\* phase is not a successful tuple result, the fetch raises an error: it ends
\* there, and no map is returned.
C8_FailedResultAbortsFetch ==
    [][((PullActiveList \/ PullActiveTableSizeFromSeg)
            /\ \E s \in Segs : pg_results[s].status = "error")
        => /\ last_ret'.outcome = "error"
           /\ epoch_phase' = "idle"
           /\ local_table_stats_map' = {}]_vars

C8_Witness ==
    /\ epoch_phase = "idle"
    /\ last_ret = Returned("fetch", "dispatcher", "error", {}, FALSE)
    /\ local_table_stats_map = {}
    /\ \E r \in DOMAIN owed : owed[r] = 2

\* C11: whenever a node's active-table map is full, the drain of one
\* FETCH_ACTIVE_OID call on that node leaves it below capacity, whatever the
\* database of the call.
C11_DrainRestoresCapacity ==
    [][\A p \in Procs :
        (DrainRelease(p)
            /\ Cardinality(active_tables_map[node[p]]) = diskquota_max_active_tables)
        => Cardinality(active_tables_map'[node[p]]) < diskquota_max_active_tables]_vars

\* C11 as amended: the drain of a FETCH_ACTIVE_OID call takes the entries of
\* the call's database only. Whenever the map holds at least
\* diskquota_max_active_tables entries, one of them of that database, the
\* drain leaves exactly the entries of the other databases, which are fewer
\* than the map held (fewer than diskquota_max_active_tables when it held
\* exactly that many), and a probe of a new key of a monitored database on
\* that segment is then entered, whether or not the table can still grow.
C11_CapacityRecovery ==
    [][\A p \in Procs :
        (DrainRelease(p)
            /\ Cardinality(active_tables_map[node[p]]) >= diskquota_max_active_tables
            /\ \E e \in active_tables_map[node[p]] : e.dbid = MyDatabaseId[p])
        => /\ active_tables_map'[node[p]] =
                  {e \in active_tables_map[node[p]] : e.dbid # MyDatabaseId[p]}
           /\ Cardinality(active_tables_map'[node[p]])
                 < Cardinality(active_tables_map[node[p]])
           /\ Cardinality(active_tables_map[node[p]]) = diskquota_max_active_tables
                 => Cardinality(active_tables_map'[node[p]]) < diskquota_max_active_tables
           /\ \A e \in FileEntries :
                 (e \notin active_tables_map'[node[p]] /\ ~ProbeSkips(node[p], e.dbid))
                 => \A spare \in BOOLEAN :
                       LET r == ProbeEnter(active_tables_map'[node[p]], e,
                                           active_tables_nelem'[node[p]], spare)
                       IN r.outcome = "entered" /\ e \in r.map]_vars

\* the probe that found the map full has returned, and the drain that
\* followed has made room
C11_Witness ==
    \E p \in Procs :
        /\ pc[p] = "oid_resolve"
        /\ last_ret.op = "probe" /\ last_ret.outcome = "warning"
        /\ local_active_table_file_map[p] # {}
        /\ Cardinality(active_tables_map[node[p]]) < diskquota_max_active_tables

\* C12: an entry that was in the shared map when the drain of its database's
\* FETCH_ACTIVE_OID call started is not in the map when the call returns,
\* unless a probe entered it again: the call itself enters no entry.
C12_EntryLifetime ==
    [][\A p \in Procs :
        PutBackRelease(p)
        => \A e \in local_active_table_file_map[p] :
              e \in active_tables_map'[node[p]] => e \in active_tables_map[node[p]]]_vars

\* C12 as amended: the drain of a FETCH_ACTIVE_OID call takes every entry of
\* the call's database out of the shared map; an entry whose relfilenode
\* resolves to a relation is dropped from the local map and never put back;
\* the put-back loop enters only entries that did not resolve; and only a
\* probe or the put-back loop adds an entry to a map.
C12_EntryLivesUntilResolved ==
    [][/\ \A p \in Procs :
            DrainRelease(p)
            => \A e \in active_tables_map'[node[p]] : e.dbid # MyDatabaseId[p]
       /\ \A p \in Procs :
            \A resolved \in SUBSET local_active_table_file_map[p] :
                ResolveEntries(p, resolved)
                => local_active_table_file_map'[p] \cap resolved = {}
       /\ \A p \in Procs :
            PutBackRelease(p)
            => /\ (active_tables_map'[node[p]] \ active_tables_map[node[p]])
                      \subseteq local_active_table_file_map[p]
               /\ \A n \in Nodes \ {node[p]} :
                      active_tables_map'[n] = active_tables_map[n]
       /\ \A n \in Nodes :
            active_tables_map'[n] \ active_tables_map[n] # {}
            => \/ \E e \in FileEntries : report_active_table_helper(n, e)
               \/ \E p \in Procs : PutBackRelease(p)]_vars

\* a call has returned relation ids for the entries that resolved and has put
\* the others back
C12_Witness ==
    /\ last_ret.op = "fetch"
    /\ last_ret.outcome = "oids"
    /\ last_ret.oids # {}
    /\ last_ret.putback
    /\ active_tables_map[last_ret.node] # {}

\* C14: a FETCH_ACTIVE_OID call on the coordinator raises no error.
C14_ReturnsNothing ==
    [][\A p \in Procs, db \in DbIds, role \in GpRoles :
        diskquota_fetch_table_stat_oid(p, "dispatcher", db, role)
        => last_ret'.outcome # "error"]_vars

\* C14 as amended: a FETCH_ACTIVE_OID call in the dispatch or the utility role
\* raises an error before it takes the lock: it returns no tuples, drains
\* nothing and leaves every active-table map as it was. The code tests the
\* role only, never whether the node is a mirror.
C14_RefusedBeforeDrain ==
    [][\A p \in Procs, n \in Nodes, db \in DbIds, role \in {"dispatch", "utility"} :
        diskquota_fetch_table_stat_oid(p, n, db, role)
        => /\ last_ret' = Returned("fetch", n, "error", {}, FALSE)
           /\ UNCHANGED <<active_tables_map, active_table_lock, pc,
                          local_active_table_file_map,
                          local_active_table_stats_map>>]_vars

\* a utility-mode call on a primary whose map holds entries has been refused
C14_Witness ==
    /\ last_ret = Returned("fetch", "primary", "error", {}, FALSE)
    /\ active_tables_map["primary"] # {}
    /\ \A p \in Procs : pc[p] = "idle"

\* the relation ids of a result, and the elements of an array
ReloidsOf(rows) == {x.reloid : x \in rows}
ElemsOf(array) == {array[i] : i \in 1..Len(array)}

\* C15: in a fetch that is not the initial one, FETCH_ACTIVE_SIZE is
\* dispatched only when FETCH_ACTIVE_OID has returned from every segment; the
\* oid array it carries lists, once each, exactly the relation ids the
\* segments returned in the drain phase; every segment receives that same
\* array and sizes every relation of it, also those it did not report itself.
C15_TwoPhaseFanout ==
    [][/\ (epoch_phase # "size" /\ epoch_phase' = "size")
          => /\ epoch_phase = "oid"
             /\ \A s \in Segs : pg_results[s].status = "TUPLES_OK"
             /\ ElemsOf(active_oid_list') =
                    UNION {ReloidsOf(pg_results[s].rows) : s \in Segs}
             /\ Len(active_oid_list') = Cardinality(ElemsOf(active_oid_list'))
             /\ \A s \in Segs : pg_results'[s].status = "none"
       /\ (epoch_phase = "size" /\ epoch_phase' = "size")
          => active_oid_list' = active_oid_list
       /\ \A s \in Segs :
            (epoch_phase = "size" /\ pg_results[s].status = "none"
                /\ pg_results'[s].status = "TUPLES_OK")
            => ReloidsOf(pg_results'[s].rows) = ElemsOf(active_oid_list)]_vars

\* the size phase of a fetch whose list holds two relations, one of them
\* reported by one segment only, and a segment that reported nothing has sized
\* both
C15_Witness ==
    /\ epoch_phase = "size"
    /\ Len(active_oid_list) = 2
    /\ \E s \in Segs :
          /\ removed[s] = {}
          /\ pg_results[s].status = "TUPLES_OK"
          /\ ReloidsOf(pg_results[s].rows) = ElemsOf(active_oid_list)
    /\ \E r \in ElemsOf(active_oid_list) :
          Cardinality({s \in Segs : r \in ResolvedOids(removed[s])}) = 1

\* the rows of table_size whose three columns are all non-NULL, as entries
NonNullRows(extMajorVersion, table) ==
    {[reloid |-> r.tableid, tablesize |-> r.size,
      segid |-> IF extMajorVersion = 1 THEN -1 ELSE r.segid] :
        r \in {x \in table : x.nulls = {}}}

\* C16: the initial fetch gp_fetch_active_tables(true) dispatches nothing to
\* the segments and changes no segment's active-table map; when it returns,
\* its map holds exactly the rows of table_size whose columns are all
\* non-NULL, one entry for each key (reloid, segid).
C16_ColdStart ==
    [][gp_fetch_active_tables_init
        => /\ active_tables_map' = active_tables_map
           /\ active_table_lock' = active_table_lock
           /\ pg_results' = pg_results
           /\ \A s \in Segs : pg_results'[s] = NoResult
           /\ epoch_phase' = "idle"
           /\ call_result'.status = "ok"
              => /\ local_table_stats_map' =
                        NonNullRows(call_args.version, call_args.table)
                 /\ \A x, y \in local_table_stats_map' :
                        (x.reloid = y.reloid /\ x.segid = y.segid) => x = y]_vars

\* the initial fetch has read a table with a NULL size and a row without
\* NULL, and the segments' maps still hold their entries
C16_Witness ==
    /\ call_args.fn = "load_table_size"
    /\ call_result.status = "ok"
    /\ \E r \in call_args.table : r.nulls # {}
    /\ local_table_stats_map # {}
    /\ Cardinality(local_table_stats_map) < Cardinality(call_args.table)
    /\ \A s \in Segs : active_tables_map[s] # {}

\* the entries all the segments hold for relation R
EntriesOf(entries, R) == {x \in UNION {entries[s] : s \in Segs} : x.reloid = R}

\* C17: diskquota_fetch_table_stat returns tuples of two columns under
\* extension version 1, tuples of three columns with the segment id under
\* version 2, and raises an error under any other version; from results of
\* two columns the coordinator builds only entries with segid -1, one for
\* each relation returned, holding the sum over the segments; and
\* load_table_size under version 1 builds only entries with segid -1.
C17_VersionBifurcation ==
    /\ (call_args.fn = "diskquota_fetch_table_stat" /\ call_result.status # "none")
       => /\ call_args.version = 1
             => /\ call_result.status = "ok"
                /\ \A s \in Segs :
                      /\ call_result.results[s].status = "TUPLES_OK"
                      /\ call_result.results[s].nfields = 2
                      /\ call_result.results[s].rows =
                             {[reloid |-> e.reloid, tablesize |-> e.tablesize] :
                                  e \in call_args.entries[s]}
                /\ \A x \in call_result.rows : x.segid = -1
                /\ \A R \in RelOids :
                      LET total == {x \in call_result.rows : x.reloid = R} IN
                      IF EntriesOf(call_args.entries, R) = {} THEN total = {}
                      ELSE total = {[reloid |-> R, segid |-> -1,
                                     tablesize |->
                                         SumSizes(EntriesOf(call_args.entries, R))]}
          /\ call_args.version = 2
             => /\ call_result.status = "ok"
                /\ \A s \in Segs :
                      /\ call_result.results[s].status = "TUPLES_OK"
                      /\ call_result.results[s].nfields = 3
                      /\ call_result.results[s].rows = call_args.entries[s]
                      /\ \A x \in call_result.results[s].rows : x.segid = s
                /\ {x \in call_result.rows : x.segid # -1} =
                       UNION {call_args.entries[s] : s \in Segs}
          /\ call_args.version \notin {1, 2}
             => /\ call_result.status = "error"
                /\ call_result.rows = {}
                /\ \A s \in Segs :
                      /\ call_result.results[s].status = "error"
                      /\ call_result.results[s].rows = {}
    /\ (call_args.fn = "load_table_size" /\ call_result.status = "ok")
       => /\ call_args.version \in {1, 2}
          /\ call_args.version = 1 => \A x \in call_result.rows : x.segid = -1
          /\ call_args.version = 1
             => {x.reloid : x \in call_result.rows} =
                    {r.tableid : r \in {y \in call_args.table : y.nulls = {}}}

\* under version 1 two segments have returned a size for the same relation
\* and the coordinator holds their sum in its only entry
C17_Witness ==
    /\ call_args.fn = "diskquota_fetch_table_stat"
    /\ call_args.version = 1
    /\ call_result.status = "ok"
    /\ \E x \in call_result.rows : x.tablesize > MaxTableSize
    /\ \E R \in RelOids : Cardinality(EntriesOf(call_args.entries, R)) > 1

\* C13: the unlink hook acts on the active-table map as the other three file
\* hooks do: on a primary, for a monitored database and with room in the map,
\* it leaves the file's entry in the map.
C13_UnlinkReports ==
    [][\A n \in Nodes, e \in FileEntries :
        (active_table_hook("smgrunlink", n, e)
            /\ ~ProbeSkips(n, e.dbid)
            /\ Cardinality(active_tables_map[n]) < diskquota_max_active_tables)
        => e \in active_tables_map'[n]]_vars

\* C13 as amended: the create, the extend and the truncate hook report the
\* file to the active-table map, subject to the short-circuits, and leave the
\* relation cache alone; the unlink hook never changes the active-table map
\* or its lock: on every node and for every database it only removes from the
\* relation cache every entry of that relfilenode.
C13_UnlinkOnlyEvicts ==
    [][\A n \in Nodes, e \in FileEntries :
        /\ active_table_hook("smgrunlink", n, e)
           => /\ active_tables_map' = active_tables_map
              /\ active_table_lock' = active_table_lock
              /\ relation_cache'[n] =
                     {c \in relation_cache[n] : c.relfilenode # e.relfilenode}
              /\ \A n2 \in Nodes \ {n} : relation_cache'[n2] = relation_cache[n2]
        /\ \A hook \in FileHooks \ {"smgrunlink"} :
              active_table_hook(hook, n, e)
              => /\ relation_cache' = relation_cache
                 /\ (ProbeSkips(n, e.dbid)
                        => active_tables_map' = active_tables_map)
                 /\ (~ProbeSkips(n, e.dbid)
                        => \/ e \in active_tables_map'[n]
                           \/ last_ret'.outcome = "warning")]_vars

\* the unlink hook has run on a primary whose map has room and whose relation
\* cache held an entry of the file: the map is still empty, another entry of
\* the cache is still there
C13_Witness ==
    /\ last_ret = Returned("smgrunlink", "primary", "none", {}, FALSE)
    /\ active_tables_map["primary"] = {}
    /\ Cardinality(relation_cache["primary"]) = 1

\* C18: the object-access hook calls update_relation_cache for objectId if
\* and only if the class is the relation class, subId is 0, objectId is not
\* below FirstNormalObjectId, the access is OAT_POST_CREATE, and the backend
\* runs on a primary for a monitored database; otherwise it leaves the
\* relation cache as it was.
C18_PostCreateFilter ==
    [][call_args'.fn = "object_access_hook_QuotaStmt"
        => LET a == call_args' IN
           IF /\ a.classId = RelationRelationId
              /\ a.subId = 0
              /\ a.objectId >= FirstNormalObjectId
              /\ a.access = "OAT_POST_CREATE"
              /\ a.node = "primary"
              /\ a.MyDatabaseId \in MonitoredDbs
              THEN /\ last_ret' = Returned("object_access", a.node, "updated",
                                           {a.objectId}, FALSE)
                   /\ \E c \in relation_cache'[a.node] : c.relid = a.objectId
                   /\ \A c \in relation_cache[a.node] :
                          c.relid # a.objectId => c \in relation_cache'[a.node]
                   /\ \A n \in Nodes \ {a.node} :
                          relation_cache'[n] = relation_cache[n]
              ELSE /\ last_ret' = Returned("object_access", a.node, "skipped",
                                           {}, FALSE)
                   /\ relation_cache' = relation_cache]_vars

\* the hook has updated the cache for two relations, and a call for a
\* relation with subId 1 has left the cache alone
C18_Witness ==
    /\ call_args.fn = "object_access_hook_QuotaStmt"
    /\ call_args.classId = RelationRelationId
    /\ call_args.subId # 0
    /\ call_args.objectId >= FirstNormalObjectId
    /\ call_args.access = "OAT_POST_CREATE"
    /\ call_args.node = "primary"
    /\ call_args.MyDatabaseId \in MonitoredDbs
    /\ last_ret = Returned("object_access", "primary", "skipped", {}, FALSE)
    /\ Cardinality(relation_cache["primary"]) = 2
    /\ relation_cache["dispatcher"] = {}
    /\ relation_cache["mirror"] = {}

\* C19 (cancellable wait): a wait_for_worker_new_epoch call with a pending
\* cancel request stops waiting, also while the worker is suspended and the
\* epoch does not advance; the round that ends the call changes nothing of the
\* worker, and a worker at its fault point goes on as soon as the fault is
\* resumed.
C19_CancellableWait ==
    /\ \A p \in Procs :
           (wait_pc[p] = "waiting" /\ QueryCancelPending[p])
               ~> (wait_pc[p] # "waiting")
    /\ [][\A p \in Procs :
              (wait_pc[p] = "waiting" /\ QueryCancelPending[p]
                  /\ wait_pc'[p] # "waiting")
              => /\ wait_pc'[p] = "cancelled"
                 /\ UNCHANGED <<WorkerEpoch, worker_pc, fault>>]_vars
    /\ [](fault = "suspend" => ENABLED ResumeFault)
    /\ []((worker_pc = "top" /\ fault = "none") => ENABLED WorkerLoopTop)

\* a call has been cancelled while the worker is suspended at its fault point,
\* still in the epoch the call started in
C19_Witness ==
    \E p \in Procs :
        /\ wait_pc[p] = "cancelled"
        /\ fault = "suspend"
        /\ worker_pc = "top"
        /\ WorkerEpoch = wait_start[p]

\* C20 (relation_size drop race): when the files of the relation are unlinked
\* after relation_size has started and before a node stats its file, that
\* node's relation_size_local returns 0 and raises nothing; the call never
\* raises, it returns the sum of what the nodes found, which is 0 when every
\* node found its file missing.
C20_DropRace ==
    /\ relation_size_result.status # "error"
    /\ \A n \in SizeNodes :
           /\ stat_result[n].status # "error"
           /\ (stat_pc[n] = "done" /\ enoent[n])
                  => stat_result[n] = [status |-> "ok", size |-> 0]
           /\ (stat_pc[n] = "done" /\ ~enoent[n])
                  => stat_result[n] = [status |-> "ok", size |-> relfile[n].size]
    /\ relation_size_result.status = "ok"
           => /\ relation_size_result.size = SumOfSizes(stat_result, SizeNodes)
              /\ (\A n \in SizeNodes : enoent[n]) => relation_size_result.size = 0

\* the call has returned 0 for a relation whose file held data on every node
\* and was unlinked on every node before the node's stat
C20_Witness ==
    /\ relation_size_result = [status |-> "ok", size |-> 0]
    /\ \A n \in SizeNodes :
           /\ enoent[n]
           /\ ~relfile[n].exists
           /\ relfile[n].size = MaxTableSize

\* every non-primary entry has its primary in the cache and is in its
\* primary's auxiliary array
AuxiliaryContainment ==
    \A e \in relation_cache_detail :
        e.relid # e.primary_table_oid
        => \E p \in relation_cache_detail :
               /\ p.relid = e.primary_table_oid
               /\ e.relid \in ArrayRange(p.auxrel_oid)

\* C21: once the sweep of an epoch has run, every non-primary entry has its
\* primary in the cache and is in the primary's auxiliary set, so
\* check_relation_cache() returns TRUE.
C21_CheckReturnsTrue ==
    swept => /\ AuxiliaryContainment
             /\ check_relation_cache(relation_cache_detail) = "t"

\* C22 (mailbox mutual exclusion): at most one requester's command occupies
\* the mailbox at a time; while a requester waits, the fields of the mailbox
\* are its own; and the result a requester reads answers its own command.
C22_MailboxMutualExclusion ==
    /\ Cardinality({p \in Requesters : req_pc[p] = "waiting"}) <= 1
    /\ \A p \in Requesters :
           req_pc[p] = "waiting"
           => /\ extension_ddl_lock = p
              /\ extension_ddl_message.req_pid = p
              /\ extension_ddl_message.cmd = req_cmd[p]
    /\ \A p \in Requesters :
           (req_pc[p] = "done" /\ req_read[p].result # ERR_PENDING)
           => req_read[p].answers = p

WaitsForLock(p) == pc[p] \in {"oid_lock", "oid_putback_lock"}

\* the backend p is inside one of the two critical sections of
\* get_active_tables_oid
InCriticalSection(p) == pc[p] \in {"oid_drain", "oid_putback"}

\* C25: active_table_lock is held only inside the drain loop and the put-back
\* loop of one call: its holder is never at the lookups of the resolve loop,
\* never waits for a lock, and is not idle (the call has not returned); a
\* probe leaves the lock free when it returns; and whenever a backend waits
\* for the lock, the lock is free or its holder can take its next step, so no
\* interleaving of probes and calls deadlocks.
C25_LockDiscipline ==
    /\ \A n \in Nodes :
          active_table_lock[n] # 0
          => /\ active_table_lock[n] \in Drainers
             /\ node[active_table_lock[n]] = n
             /\ InCriticalSection(active_table_lock[n])
    /\ \A p \in Drainers :
          /\ InCriticalSection(p) => active_table_lock[node[p]] = p
          /\ pc[p] \in {"idle", "oid_resolve"} \/ WaitsForLock(p)
                 => \A n \in Nodes : active_table_lock[n] # p
          /\ WaitsForLock(p)
                 => \/ active_table_lock[node[p]] = 0
                    \/ ENABLED DrainRelease(active_table_lock[node[p]])
                    \/ ENABLED PutBackRelease(active_table_lock[node[p]])

\* one call holds the lock in its put-back loop while the other call waits
\* for the lock before its drain and has its lookups still ahead
C25_Witness ==
    /\ pc[1] = "oid_putback"
    /\ active_table_lock["primary"] = 1
    /\ pc[2] = "oid_lock"
    /\ active_tables_map["primary"] # {}

(***************************************************************************)
(* Properties of the reads of the set of monitored databases               *)
(* (SpecMonitored).                                                        *)
(***************************************************************************)
\* C26: every membership test of a probe is made while the probe holds
\* monitoring_dbid_cache_lock in read mode, so that no test is made while the
\* launcher writes to the set.
C26_GuardedReads ==
    dbid_read.op = "test"
    => /\ dbid_read.held = "shared"
       /\ ~monitoring_dbid_cache_lock.exclusive

\* C26 as amended: a probe tests the membership of its database holding
\* neither monitoring_dbid_cache_lock nor active_table_lock; the launcher's
\* hold of monitoring_dbid_cache_lock never keeps the test of a probe on a
\* primary from running, so a test may be made while the launcher writes to
\* the set; the probe takes active_table_lock only after the test found the
\* database, for its hash_search, and holds it nowhere else.
C26_UnguardedReads ==
    /\ dbid_read.op = "test" => dbid_read.held = "none"
    /\ \A b \in Probers, e \in DbsetEntries :
          probe_pc[b].pc = "idle"
          => /\ active_table_lock["primary"] # b
             /\ ENABLED report_active_table_helper_unlocked(b, "primary", e)
    /\ \A n \in Nodes :
          active_table_lock[n] # 0
          => /\ n = "primary"
             /\ active_table_lock[n] \in Probers
             /\ probe_pc[active_table_lock[n]].pc = "enter"
    /\ \A b \in Probers :
          probe_pc[b].pc = "enter" => active_table_lock["primary"] = b

\* a probe has tested a database while the launcher held the lock to write
\* another one: the test missed a database that is in the set, the probe
\* returned without entering its file, the launcher still holds the lock
C26_Witness ==
    /\ dbid_read.op = "test"
    /\ dbid_read.member /\ ~dbid_read.found
    /\ dbid_read.writing \notin {NoDbidOp.dbid, dbid_read.dbid}
    /\ launcher_dbid_op.dbid = dbid_read.writing
    /\ monitoring_dbid_cache_lock.exclusive
    /\ last_ret.outcome = "skipped"

(***************************************************************************)
(* Properties of one FETCH_ACTIVE_OID call (SpecOneCall).                  *)
(***************************************************************************)
\* the call has returned its relation ids
OneCallReturned == last_ret.op = "fetch" /\ last_ret.outcome = "oids"

\* the entries the call took out of the map for good
RemovedByCall == call_args.map \ active_tables_map["primary"]

\* C27: one FETCH_ACTIVE_OID call for database D with no probe meanwhile: the
\* entries of the other databases stay in the shared map all along; when the
\* call returns, the map is the map before the call minus entries of D; and
\* the entries it lacks are exactly those that resolved to a relation: every
\* entry of D that did not resolve is in the map again.
C27_EffectOfOneCall ==
    /\ [](/\ {e \in active_tables_map["primary"] : e.dbid # call_args.db}
                = {e \in call_args.map : e.dbid # call_args.db}
          /\ active_tables_map["primary"] \subseteq call_args.map
          /\ OneCallReturned
                => RemovedByCall \subseteq DrainedEntries(call_args.map, call_args.db))
    /\ [][\A p \in Procs :
            /\ \A resolved \in SUBSET local_active_table_file_map[p] :
                   (ResolveEntries(p, resolved) /\ pc'[p] = "idle")
                   => /\ resolved = DrainedEntries(call_args.map, call_args.db)
                      /\ active_tables_map'["primary"] = call_args.map \ resolved
            /\ PutBackRelease(p)
                   => /\ local_active_table_file_map[p] \subseteq
                             active_tables_map'["primary"]
                      /\ active_tables_map'["primary"] =
                             call_args.map \ (DrainedEntries(call_args.map, call_args.db)
                                                 \ local_active_table_file_map[p])]_vars

\* the call has returned: one entry of its database resolved and is gone, one
\* did not and is in the map again
C27_Witness ==
    /\ OneCallReturned
    /\ last_ret.putback
    /\ RemovedByCall # {}
    /\ \E e \in active_tables_map["primary"] : e.dbid = call_args.db

\* C28: the set a FETCH_ACTIVE_OID call returns is the set of the primary
\* relations of the drained entries of its database that resolved: it holds
\* the primary relation of every entry the call took out of the map for good,
\* once however many files of that relation were drained, it holds nothing
\* else, hence no relation of an entry that did not resolve or of another
\* database; and the resolve loop hands on exactly the primary relations of
\* the entries it resolved.
C28_ResultOfOneCall ==
    /\ [](OneCallReturned
            => /\ last_ret.oids =
                      {get_primary_table_oid(RelidOf(e)) : e \in RemovedByCall}
               /\ \A e \in RemovedByCall : e.dbid = call_args.db
               /\ Cardinality(last_ret.oids) <= Cardinality(RemovedByCall))
    /\ [][\A p \in Procs :
            \A resolved \in SUBSET local_active_table_file_map[p] :
                ResolveEntries(p, resolved)
                => (IF pc'[p] = "idle" THEN last_ret'.oids
                                       ELSE local_active_table_stats_map'[p])
                       = {get_primary_table_oid(RelidOf(e)) : e \in resolved}]_vars

\* the call has returned one relation id for two drained files: the file of
\* a relation and the file of its auxiliary relation
C28_Witness ==
    /\ OneCallReturned
    /\ Cardinality(RemovedByCall) = 2
    /\ Cardinality(last_ret.oids) = 1

\* an entry is held while it is in the segment's shared map or in the local
\* map of one of the two calls
HeldByDrains(map, locals, e) == e \in map["primary"] \/ \E p \in Drainers : e \in locals[p]

\* C29: two FETCH_ACTIVE_OID calls for monitored databases run on one segment
\* at the same time, with probes in between: the two calls are never inside
\* a critical section together; the entries a drain takes out of the shared
\* map go to the local map of that call only; and an entry that is in the
\* shared map or in a call's local map is still in one of them after every
\* step, unless the call resolved it in this step and has its primary
\* relation in its result.
C29_ConcurrentDrains ==
    /\ [](\A p, q \in Drainers :
              (InCriticalSection(p) /\ InCriticalSection(q) /\ node[p] = node[q]) => p = q)
    /\ [][\A p \in Drainers :
            DrainRelease(p)
            => /\ local_active_table_file_map'[p] =
                      active_tables_map["primary"] \ active_tables_map'["primary"]
               /\ \A q \in Drainers \ {p} :
                      local_active_table_file_map'[q] = local_active_table_file_map[q]]_vars
    /\ [][\A e \in FileEntries :
            HeldByDrains(active_tables_map, local_active_table_file_map, e)
            => \/ HeldByDrains(active_tables_map', local_active_table_file_map', e)
               \/ \E p \in Drainers :
                     /\ pc[p] = "oid_resolve"
                     /\ e \in local_active_table_file_map[p]
                     /\ get_primary_table_oid(RelidOf(e)) \in
                            (local_active_table_stats_map'[p] \cup last_ret'.oids)]_vars

(***************************************************************************)
(* Properties of one FETCH_ACTIVE_SIZE call on arrays with NULL elements   *)
(* (SpecStats).                                                            *)
(***************************************************************************)
\* C30: for every oid array, NULL elements at any position included, the
\* result of FETCH_ACTIVE_SIZE holds exactly one tuple for each distinct
\* relation id of the array that is not NULL, with the index of the executing
\* segment, and no tuple for a NULL element.
C30_ResultCompleteness ==
    (call_args.fn = "get_active_tables_stats" /\ call_result.status # "none")
    => LET a == call_args.array IN
       /\ call_result.status = "TUPLES_OK"
       /\ {x.reloid : x \in call_result.rows} =
              {a[i] : i \in {j \in 1..Len(a) : a[j] # NullElem}}
       /\ \A x, y \in call_result.rows : x.reloid = y.reloid => x = y
       /\ \A x \in call_result.rows :
              x.segid = call_args.segindex /\ x.reloid # NullElem

(***************************************************************************)
(* Properties of repeated probes (Spec).                                   *)
(***************************************************************************)
\* C31: a create, extend or truncate probe for a key that is already in the
\* active-table map leaves the map as it is and logs no warning, whether or
\* not the map is full; and a step of a probe (the only step that leaves
\* every backend where it is) removes nothing from a map and adds at most one
\* key, so the probes for one key take one slot however often they are
\* repeated.
C31_ProbeIdempotence ==
    [][/\ \A n \in Nodes : \A e \in active_tables_map[n] :
            report_active_table_helper(n, e)
            => /\ active_tables_map' = active_tables_map
               /\ last_ret'.outcome = "found"
       /\ pc' = pc
            => \A n \in Nodes :
                  /\ active_tables_map[n] \subseteq active_tables_map'[n]
                  /\ Cardinality(active_tables_map'[n] \ active_tables_map[n]) <= 1]_vars

\* a probe has found its key in a full map
C31_Witness ==
    /\ last_ret.op = "probe"
    /\ last_ret.outcome = "found"
    /\ Cardinality(active_tables_map["primary"]) = diskquota_max_active_tables

(***************************************************************************)
(* Properties of the chain of hooks (SpecChain).                           *)
(***************************************************************************)
\* C32: the installation saves what each of the five hook variables pointed
\* to; and on every event that reaches one of the extension's hook
\* functions, whatever the extension then does with it, a listener that was
\* installed before is called first, with the arguments of the event, and
\* the extension's own processing comes second; without such a listener only
\* the own processing runs.
C32_HookChaining ==
    /\ [][init_active_table_hook => prev_hook' = file_hook]_vars
    /\ [](hook_calls.via = "diskquota"
            => LET h == hook_calls.event.hook
                   own == [callee |-> "diskquota", args |-> hook_calls.event]
               IN /\ h \in HookNames
                  /\ prev_hook[h] = "listener"
                        => hook_calls.calls =
                               <<[callee |-> "listener", args |-> hook_calls.event], own>>
                  /\ prev_hook[h] = "NULL" => hook_calls.calls = <<own>>)

\* the object-access hook was called for an object that is not a relation:
\* the listener installed before was called first, then the extension
\* ignored the event
C32_Witness ==
    /\ hook_calls.via = "diskquota"
    /\ hook_calls.event.hook = "object_access"
    /\ hook_calls.event.classId # RelationRelationId
    /\ prev_hook["object_access"] = "listener"
    /\ Len(hook_calls.calls) = 2
    /\ hook_calls.calls[1].callee = "listener"
    /\ last_ret.op = "object_access"
    /\ last_ret.outcome = "skipped"

====
